---- MODULE Spec2Model ----
(***************************************************************************)
(* Screen streaming over TCP: the sender (StreamingServer, FrameEncoder)   *)
(* and the receiver (StreamingClient, FrameDecoder).                       *)
(*                                                                         *)
(* The module holds several specifications over one set of variables:      *)
(*   Spec          FrameDecoder fed a well-formed stream of framed         *)
(*                 messages, cut into arbitrary chunks, and drained as     *)
(*                 StreamingClient._receive_loop drains it                 *)
(*   SpecRaw       the same decoder fed arbitrary bytes                    *)
(*   SpecServer    StreamingServer: start(), stop(), the accept thread,    *)
(*                 the stream thread and its _broadcast                    *)
(*   SpecFanout    the same server, not stopped, with writes to clients    *)
(*                 that fault after a part of the message                  *)
(*   SpecSettings  StreamingServer built with arbitrary arguments, with    *)
(*                 set_fps, set_quality and set_scale called at any time   *)
(*   SpecTuning    the same server with the setters called while its      *)
(*                 stream loop runs                                        *)
(*   SpecRecv      StreamingClient: connect(), the receive thread and a    *)
(*                 consumer polling get_frame()                            *)
(*   SpecDisc      the same client with disconnect() called from another   *)
(*                 thread while the receive loop runs                      *)
(*   SpecSession   StreamingClient: connect() and disconnect() called at   *)
(*                 any time, and the receive threads they leave behind     *)
(*   SpecEngine    StreamingServer: start() and stop() called in any order, *)
(*                 and the accept and stream threads each start() spawns   *)
(*   SpecLife      either engine with a caller that keeps to the life      *)
(*                 cycle; SpecLifeFair adds the fairness of its threads    *)
(* A specification leaves the variables of the other parts untouched.      *)
(***************************************************************************)
EXTENDS Integers, Sequences, FiniteSets, TLC

VARIABLES
    \* ---- receiver/decoder.py: FrameDecoder and the loop that drives it
    buffer,     \* FrameDecoder.buffer, a sequence of bytes
    wire,       \* bytes of the TCP stream not yet handed to add_data
    msgs,       \* the payloads the stream was built from (<<>>: raw bytes)
    pc,         \* "recv": before the next add_data, "drain": in the get_frame loop
    ret,        \* what the last get_frame call returned
    frames,     \* the frames get_frame has returned so far, in order
    path,       \* which return of get_frame the last call took
    nadd,       \* number of add_data calls so far
    ncall       \* number of get_frame calls since the last add_data

decVars == <<buffer, wire, msgs, pc, ret, path, frames, nadd, ncall>>

VARIABLES
    \* ---- sender/sender.py: StreamingServer, sender/encoder.py: FrameEncoder
    fps,            \* StreamingServer.fps
    quality,        \* StreamingServer.quality
    scale,          \* StreamingServer.scale, in hundredths (100 is 1.0)
    encoder,        \* StreamingServer.encoder: NoEncoder or its quality and scale
    running,        \* StreamingServer.running
    server_socket,  \* "none", "unbound", "open" or "closed"
    clients,        \* StreamingServer.clients, a sequence of socket handles
    clients_lock,   \* "free", or the thread inside `with self.clients_lock`
    closed,         \* the handles the server has called close() on
    naccepted,      \* number of connections accept() has returned
    pcM,            \* the caller's thread: where it is in start() or stop()
    pcA,            \* the accept thread: where it is in _accept_clients
    pcS,            \* the stream thread: where it is in _stream_loop / _broadcast
    si,             \* stop(): index of `for client in self.clients`
    bi,             \* _broadcast: index of the for loop being run
    disconnected,   \* _broadcast: its local list
    encoded_data,   \* _stream_loop: number of the frame it last encoded
    sent,           \* per handle, the frames sendall has written to it
    passClients,    \* the handles this cycle's _broadcast has written to so far
    nstart,         \* number of start() calls so far
    nstop,          \* number of stop() calls so far
    lastError,      \* what _stream_loop's handler last caught: "none" before
    lastFpsArg,     \* <<v>> after set_fps(v) was the last set_fps call, else <<>>
    lastScaleArg,   \* <<v>> after set_scale(v) was the last set_scale call, else <<>>
    startRet,       \* what the last start() call returned: "none" until it returns
    lastAccept,     \* how the accept() call of this pass of the accept loop ended
    tuned,          \* for quality and scale: was the setter last called on
                    \* this encoder, with running True
    nevicted,       \* number of handles _broadcast has removed from self.clients
    ncleared,       \* number of handles stop() has cleared from self.clients
    cut,            \* the handles a sendall raised on after writing part of
                    \* its message
    stopped         \* no start() was called since a stop() last returned, or ever

srvVars == <<fps, quality, scale, encoder, running, server_socket, clients,
             clients_lock, closed, naccepted, pcM, pcA, pcS, si, bi,
             disconnected, encoded_data, sent, passClients, nstart, nstop,
             lastError, lastFpsArg, lastScaleArg, startRet, lastAccept,
             tuned, nevicted, ncleared, cut,
             stopped>>

VARIABLES
    \* ---- receiver/receiver.py: StreamingClient (it uses buffer, wire, msgs)
    r_running,      \* StreamingClient.running
    connected,      \* StreamingClient.connected
    current_frame,  \* StreamingClient.current_frame
    frame_lock,     \* "free", or the thread inside `with self.frame_lock`
    frame_count,    \* StreamingClient.frame_count
    r_fps,          \* StreamingClient.fps
    pcR,            \* the receive thread: where it is in _receive_loop
    frame,          \* _receive_loop: its local `frame`
    r_event,        \* what the receive loop last reported: "none" before
    pcC,            \* a consumer thread: where it is in get_frame
    obs,            \* what the consumer's last get_frame call returned
    published,      \* the frames stored in current_frame so far, in order
    elapsed,        \* time since StreamingClient.last_fps_time, in ticks
    fps_mark,       \* how many frames were stored when fps was last recomputed
    pcD             \* a caller of disconnect(): where it is in the call

rcvVars == <<r_running, connected, current_frame, frame_lock, frame_count, r_fps,
             pcR, frame, r_event, pcC, obs, published, elapsed, fps_mark, pcD>>

VARIABLES
    \* ---- receiver/receiver.py: the sessions of one StreamingClient, with
    \* running and connected above.  Thread 0 is the caller of connect() and
    \* disconnect(), thread k the receive thread the k-th connect() spawned.
    c_socket,       \* StreamingClient.socket: 0 for None, k for the k-th socket
    c_decoder,      \* StreamingClient.decoder: 0 for None, k for the k-th decoder
    sockst,         \* per socket: "none", "new", "connected" or "closed"
    cpc,            \* per thread, where it is
    lsock,          \* per receive thread, the socket its recv call is made on
    nconnect,       \* number of connect() calls so far
    connectRet,     \* what the last connect() call returned: "none" until it returns
    c_errors,       \* number of calls of on_error so far
    c_ondisc,       \* number of calls of on_disconnect so far
    ndisconnect     \* number of disconnect() calls the caller has made so far

sesVars == <<c_socket, c_decoder, sockst, cpc, lsock, nconnect, connectRet,
             c_errors, c_ondisc, ndisconnect>>

VARIABLES
    \* ---- sender/sender.py: one StreamingServer whose start() and stop() are
    \* called in any order.  Run k is the k-th start() call: socket k is the
    \* socket it creates, thread k the accept and the stream thread it spawns.
    e_running,      \* StreamingServer.running
    e_socket,       \* StreamingServer.server_socket: 0 for None, k for socket k
    e_sockst,       \* per socket: "none", "new", "listening" or "closed"
    e_pc,           \* where the caller of start() and stop() is
    e_accept,       \* per run, where its _accept_clients thread is
    e_stream,       \* per run, where its _stream_loop thread is
    e_asock,        \* per run, the socket its accept() call is made on
    nruns,          \* number of start() calls so far
    nhalts          \* number of stop() calls so far

engVars == <<e_running, e_socket, e_sockst, e_pc, e_accept, e_stream, e_asock,
             nruns, nhalts>>

vars == <<decVars, srvVars, rcvVars, sesVars, engVars>>

----------------------------------------------------------------------------
(* Bounds *)

MaxPayload == 1     \* longest payload of a well-formed stream
MaxMsgs == 3        \* most messages in a well-formed stream
MaxRaw == 7         \* longest raw byte stream
MaxConn == 2        \* most connections accept() returns
MaxFrames == 2      \* most frames the stream loop encodes
MaxStarts == 1      \* most start() calls
MaxStops == 2       \* most stop() calls
MaxRecvMsgs == 3    \* most messages in the stream a client receives
MaxConnects == 2    \* most connect() calls on one client
MaxDisconnects == 2 \* most disconnect() calls the caller of a client makes
MaxElapsed == 3     \* the clock of a client stops this many ticks after last_fps_time
MaxRuns == 2        \* most start() calls on a server started and stopped in any order
MaxHalts == 2       \* most stop() calls on that server

(* Bytes a payload is drawn from, and bytes a raw stream is drawn from. *)
PayloadBytes == {0, 127}
RawBytes == {0, 1, 10, 127}

----------------------------------------------------------------------------
(* Sequences *)

Range(s) == {s[i] : i \in 1..Len(s)}

SeqsUpTo(S, n) == UNION {[1..k -> S] : k \in 0..n}

Max(a, b) == IF a >= b THEN a ELSE b

Min(a, b) == IF a <= b THEN a ELSE b

(* the Python slice s[a:b] of a byte string, for 0 <= a: it ends where s ends *)
Slice(s, a, b) == SubSeq(s, a + 1, Min(b, Len(s)))

(* s[k:] and s[:k] *)
Drop(s, k) == Slice(s, k, Len(s))

Take(s, k) == Slice(s, 0, k)

RECURSIVE Concat(_)
Concat(ss) == IF ss = <<>> THEN <<>> ELSE Head(ss) \o Concat(Tail(ss))

----------------------------------------------------------------------------
(* The wire format: struct.pack('>I', n) and struct.unpack('>I', b)[0] *)

Pack(n) ==
    << (n \div 16777216) % 256, (n \div 65536) % 256, (n \div 256) % 256, n % 256 >>

Unpack(b) == b[1] * 16777216 + b[2] * 65536 + b[3] * 256 + b[4]

(* FrameEncoder.encode, from the encoded bytes on: header + data *)
Encode(data) == Pack(Len(data)) \o data

----------------------------------------------------------------------------
(* The codec.  cv2.imdecode is opaque: it gives an image for some byte      *)
(* strings and fails (returns None, or raises, which get_frame turns into   *)
(* None) for the others, the empty string among them.  Here a byte string   *)
(* is an image exactly when it starts with the marker byte 127; the image   *)
(* is identified by the bytes it was decoded from.  (TLC's integers are     *)
(* 32-bit signed, so the bytes of the model stay below 128 and Unpack is    *)
(* exact on every header the model builds.)                                 *)

None == [ok |-> FALSE, img |-> <<>>]

Frame(data) == [ok |-> TRUE, img |-> data]

Decodable(data) == Len(data) > 0 /\ data[1] = 127

Imdecode(data) == IF Decodable(data) THEN Frame(data) ELSE None

----------------------------------------------------------------------------
(* FrameDecoder.get_frame, as functions of the buffer it is called on *)

(* frame_size = struct.unpack('>I', self.buffer[:4])[0] *)
FrameSize(buf) == Unpack(Slice(buf, 0, 4))

(* faulty variant: the payload length is compared with the whole buffer *)
LacksDataForgetsHeader(buf) == Len(buf) < 4 \/ Len(buf) < FrameSize(buf)

(* the two early returns: fewer than 4 bytes, or fewer than 4 + frame_size *)
LacksData(buf) == Len(buf) < 4 \/ Len(buf) < 4 + FrameSize(buf)

(* frame_data = self.buffer[4:4 + frame_size] *)
FrameData(buf) == Slice(buf, 4, 4 + FrameSize(buf))

(* faulty variant: the header is removed as soon as it has been read *)
GetFrameBufferDropsHeader(buf) ==
    IF Len(buf) < 4 THEN buf
    ELSE IF Len(buf) < 4 + FrameSize(buf) THEN Slice(buf, 4, Len(buf))
    ELSE Slice(buf, 4 + FrameSize(buf), Len(buf))

(* faulty variant: frame_size bytes are removed, the header's 4 are not *)
GetFrameBufferForgetsHeader(buf) ==
    IF LacksData(buf) THEN buf ELSE Slice(buf, FrameSize(buf), Len(buf))

(* faulty variant: the message is returned and stays in the buffer *)
GetFrameBufferKeepsMessage(buf) == buf

(* faulty variant: a message that fails to decode stays in the buffer *)
GetFrameBufferKeepsUndecodable(buf) ==
    IF LacksData(buf) \/ ~Decodable(Slice(buf, 4, 4 + FrameSize(buf))) THEN buf
    ELSE Slice(buf, 4 + FrameSize(buf), Len(buf))

(* faulty variant: a message that is not whole yet is given up *)
GetFrameBufferResetsOnPartial(buf) ==
    IF Len(buf) < 4 THEN buf
    ELSE IF Len(buf) < 4 + FrameSize(buf) THEN <<>>
    ELSE Slice(buf, 4 + FrameSize(buf), Len(buf))

(* the buffer get_frame leaves: self.buffer = self.buffer[4 + frame_size:] *)
GetFrameBuffer(buf) ==
    IF LacksData(buf) THEN buf ELSE Slice(buf, 4 + FrameSize(buf), Len(buf))

(* the value get_frame returns *)
GetFrameReturn(buf) ==
    IF LacksData(buf) THEN None ELSE Imdecode(FrameData(buf))

(* the return statement get_frame leaves by *)
GetFramePath(buf) ==
    IF Len(buf) < 4 THEN "short"
    ELSE IF Len(buf) < 4 + FrameSize(buf) THEN "partial"
    ELSE IF Decodable(FrameData(buf)) THEN "frame"
    ELSE "decode_none"

----------------------------------------------------------------------------
(* StreamingServer and FrameEncoder: settings *)

(* the values the callers of the model pass for fps, quality and scale *)
FpsArgs == {0, 30, 1000}
QualityArgs == {0, 50, 101}
ScaleArgs == {0, 50, 500}

(* StreamingServer.__init__ defaults: quality=50, fps=30, scale=1.0 *)
DefaultQuality == 50
DefaultFps == 30
DefaultScale == 100

NoEncoder == [set |-> FALSE, quality |-> 0, scale |-> 0]

(* FrameEncoder.__init__ keeps its arguments as they are *)
FrameEncoder(q, sc) == [set |-> TRUE, quality |-> q, scale |-> sc]

(* max(1, min(60, fps)) *)
ClampFps(v) == Max(1, Min(60, v))

(* FrameEncoder.set_quality: max(1, min(100, quality)) *)
ClampQuality(q) == Max(1, Min(100, q))

(* FrameEncoder.set_scale: max(0.1, min(1.0, scale)), in hundredths *)
ClampScale(sc) == Max(10, Min(100, sc))

Handles == 1..MaxConn

NoDup(seq) == \A i, j \in 1..Len(seq) : seq[i] = seq[j] => i = j

(* list.remove(x): the list without its first x *)
Remove(seq, x) ==
    IF x \notin Range(seq) THEN seq
    ELSE LET at == CHOOSE i \in 1..Len(seq) :
                       seq[i] = x /\ \A j \in 1..(i - 1) : seq[j] # x
         IN  Take(seq, at - 1) \o Drop(seq, at)

(* no setter was called with running True since the encoder was made *)
NotTuned == [quality |-> FALSE, scale |-> FALSE]

(* StreamingServer.__init__ with the given arguments; the caller's thread *)
(* is at p                                                              *)
InitServerAt(q, f, sc, p) ==
    /\ fps = f
    /\ quality = q
    /\ scale = sc
    /\ encoder = NoEncoder
    /\ running = FALSE
    /\ server_socket = "none"
    /\ clients = <<>>
    /\ clients_lock = "free"
    /\ closed = {}
    /\ naccepted = 0
    /\ pcM = p
    /\ pcA = "none"
    /\ pcS = "none"
    /\ si = 1
    /\ bi = 1
    /\ disconnected = <<>>
    /\ encoded_data = 0
    /\ sent = [h \in Handles |-> <<>>]
    /\ passClients = <<>>
    /\ nstart = 0
    /\ nstop = 0
    /\ lastError = "none"
    /\ lastFpsArg = <<>>
    /\ lastScaleArg = <<>>
    /\ startRet = "none"
    /\ lastAccept = "none"
    /\ tuned = NotTuned
    /\ nevicted = 0
    /\ ncleared = 0
    /\ cut = {}
    /\ stopped = TRUE

InitServer(q, f, sc) == InitServerAt(q, f, sc, "idle")

(* the server is not part of the specification: nobody calls it *)
IdleServer == InitServerAt(DefaultQuality, DefaultFps, DefaultScale, "off")

settings == <<fps, quality, scale, encoder, lastFpsArg, lastScaleArg, tuned>>
registry == <<clients, clients_lock, closed, naccepted, sent>>
bcLocals == <<bi, disconnected, passClients>>
ledger == <<nevicted, ncleared, cut>>

(* set_fps *)
SetFps(v) ==
    /\ pcM = "idle"
    /\ fps' = ClampFps(v)
    /\ lastFpsArg' = <<v>>
    /\ UNCHANGED <<quality, scale, encoder, lastScaleArg, tuned>>
    /\ UNCHANGED <<running, server_socket, registry, pcM, pcA, pcS, si, bcLocals,
                   encoded_data, nstart, startRet, nstop, stopped, lastError>>
    /\ UNCHANGED lastAccept
    /\ UNCHANGED ledger
    /\ UNCHANGED <<decVars, rcvVars, sesVars, engVars>>

(* set_quality *)
SetQuality(q) ==
    /\ pcM = "idle"
    /\ quality' = q
    /\ encoder' = IF encoder.set
                  THEN [encoder EXCEPT !.quality = ClampQuality(q)]
                  ELSE encoder
    /\ tuned' = [tuned EXCEPT !.quality = running]
    /\ UNCHANGED <<fps, scale, lastFpsArg, lastScaleArg>>
    /\ UNCHANGED <<running, server_socket, registry, pcM, pcA, pcS, si, bcLocals,
                   encoded_data, nstart, startRet, nstop, stopped, lastError>>
    /\ UNCHANGED lastAccept
    /\ UNCHANGED ledger
    /\ UNCHANGED <<decVars, rcvVars, sesVars, engVars>>

(* faulty variant: the encoder takes the scale as it is given *)
SetScaleUnclamped(sc) ==
    /\ pcM = "idle"
    /\ scale' = sc
    /\ encoder' = IF encoder.set
                  THEN [encoder EXCEPT !.scale = sc]
                  ELSE encoder
    /\ lastScaleArg' = <<sc>>
    /\ tuned' = [tuned EXCEPT !.scale = running]
    /\ UNCHANGED <<fps, quality, lastFpsArg>>
    /\ UNCHANGED <<running, server_socket, registry, pcM, pcA, pcS, si, bcLocals,
                   encoded_data, nstart, startRet, nstop, stopped, lastError>>
    /\ UNCHANGED lastAccept
    /\ UNCHANGED ledger
    /\ UNCHANGED <<decVars, rcvVars, sesVars, engVars>>

(* set_scale *)
SetScale(sc) ==
    /\ pcM = "idle"
    /\ scale' = sc
    /\ encoder' = IF encoder.set
                  THEN [encoder EXCEPT !.scale = ClampScale(sc)]
                  ELSE encoder
    /\ lastScaleArg' = <<sc>>
    /\ tuned' = [tuned EXCEPT !.scale = running]
    /\ UNCHANGED <<fps, quality, lastFpsArg>>
    /\ UNCHANGED <<running, server_socket, registry, pcM, pcA, pcS, si, bcLocals,
                   encoded_data, nstart, startRet, nstop, stopped, lastError>>
    /\ UNCHANGED lastAccept
    /\ UNCHANGED ledger
    /\ UNCHANGED <<decVars, rcvVars, sesVars, engVars>>

----------------------------------------------------------------------------
(* StreamingServer.start, called while no loop of an earlier start is alive *)

LoopsGone == pcA \in {"none", "done"} /\ pcS \in {"none", "done", "dead"}

(* ScreenCapture() raises: control goes to the except clause of start *)
StartCaptureFault ==
    /\ pcM = "idle"
    /\ nstart < MaxStarts
    /\ LoopsGone
    /\ nstart' = nstart + 1
    /\ startRet' = "none"
    /\ stopped' = FALSE
    /\ pcM' = "start_error"
    /\ UNCHANGED <<settings, running, server_socket, registry, pcA, pcS, si,
                   bcLocals, encoded_data, nstop, lastError>>
    /\ UNCHANGED lastAccept
    /\ UNCHANGED ledger
    /\ UNCHANGED <<decVars, rcvVars, sesVars, engVars>>

(* self.capture = ScreenCapture(); self.encoder = FrameEncoder(...) *)
StartEncoder ==
    /\ pcM = "idle"
    /\ nstart < MaxStarts
    /\ LoopsGone
    /\ nstart' = nstart + 1
    /\ startRet' = "none"
    /\ stopped' = FALSE
    /\ encoder' = FrameEncoder(quality, scale)
    /\ tuned' = [tuned EXCEPT !.quality = FALSE, !.scale = FALSE]
    /\ pcM' = "start_bind"
    /\ UNCHANGED <<fps, quality, scale, lastFpsArg, lastScaleArg>>
    /\ UNCHANGED <<running, server_socket, registry, pcA, pcS, si, bcLocals,
                   encoded_data, nstop, lastError>>
    /\ UNCHANGED lastAccept
    /\ UNCHANGED ledger
    /\ UNCHANGED <<decVars, rcvVars, sesVars, engVars>>

(* faulty variant: self.running = True is set before the socket is bound *)
StartBindFaultAfterRunning ==
    /\ pcM = "start_bind"
    /\ server_socket' = "unbound"
    /\ running' = TRUE
    /\ pcM' = "start_error"
    /\ UNCHANGED <<settings, registry, pcA, pcS, si, bcLocals, encoded_data,
                   nstart, startRet, nstop, stopped, lastError>>
    /\ UNCHANGED lastAccept
    /\ UNCHANGED ledger
    /\ UNCHANGED <<decVars, rcvVars, sesVars, engVars>>

(* socket(), bind, listen, settimeout succeed; self.running = True *)
StartBind ==
    /\ pcM = "start_bind"
    /\ server_socket' = "open"
    /\ running' = TRUE
    /\ pcM' = "start_accept"
    /\ UNCHANGED <<settings, registry, pcA, pcS, si, bcLocals, encoded_data,
                   nstart, startRet, nstop, stopped, lastError>>
    /\ UNCHANGED lastAccept
    /\ UNCHANGED ledger
    /\ UNCHANGED <<decVars, rcvVars, sesVars, engVars>>

(* bind or listen raises: control goes to the except clause of start *)
StartBindFault ==
    /\ pcM = "start_bind"
    /\ server_socket' = "unbound"
    /\ pcM' = "start_error"
    /\ UNCHANGED <<settings, running, registry, pcA, pcS, si, bcLocals, encoded_data,
                   nstart, startRet, nstop, stopped, lastError>>
    /\ UNCHANGED lastAccept
    /\ UNCHANGED ledger
    /\ UNCHANGED <<decVars, rcvVars, sesVars, engVars>>

(* except Exception: _notify_error("Failed to start server"); return False *)
StartError ==
    /\ pcM = "start_error"
    /\ startRet' = "False"
    /\ pcM' = "idle"
    /\ UNCHANGED <<settings, running, server_socket, registry, pcA, pcS, si,
                   bcLocals, encoded_data, nstart, nstop, stopped, lastError>>
    /\ UNCHANGED lastAccept
    /\ UNCHANGED ledger
    /\ UNCHANGED <<decVars, rcvVars, sesVars, engVars>>

(* accept_thread.start() *)
StartAcceptThread ==
    /\ pcM = "start_accept"
    /\ pcA' = "while"
    /\ pcM' = "start_stream"
    /\ UNCHANGED <<settings, running, server_socket, registry, pcS, si, bcLocals,
                   encoded_data, nstart, startRet, nstop, stopped, lastError>>
    /\ UNCHANGED lastAccept
    /\ UNCHANGED ledger
    /\ UNCHANGED <<decVars, rcvVars, sesVars, engVars>>

(* stream_thread.start(); _notify_status; return True *)
StartStreamThread ==
    /\ pcM = "start_stream"
    /\ pcS' = "while"
    /\ startRet' = "True"
    /\ pcM' = "idle"
    /\ UNCHANGED <<settings, running, server_socket, registry, pcA, si, bcLocals,
                   encoded_data, nstart, nstop, stopped, lastError>>
    /\ UNCHANGED lastAccept
    /\ UNCHANGED ledger
    /\ UNCHANGED <<decVars, rcvVars, sesVars, engVars>>

----------------------------------------------------------------------------
(* StreamingServer.stop *)

(* self.running = False *)
StopFlag ==
    /\ pcM = "idle"
    /\ nstop < MaxStops
    /\ nstop' = nstop + 1
    /\ running' = FALSE
    /\ pcM' = "stop_lock"
    /\ UNCHANGED <<settings, server_socket, registry, pcA, pcS, si, bcLocals, encoded_data,
                   nstart, startRet, stopped, lastError>>
    /\ UNCHANGED lastAccept
    /\ UNCHANGED ledger
    /\ UNCHANGED <<decVars, rcvVars, sesVars, engVars>>

(* faulty variant: the block is entered without waiting for the lock *)
StopLockNoWait ==
    /\ pcM = "stop_lock"
    /\ si' = 1
    /\ pcM' = "stop_close"
    /\ UNCHANGED <<settings, running, server_socket, registry, pcA, pcS, bcLocals,
                   encoded_data, nstart, startRet, nstop, stopped, lastError>>
    /\ UNCHANGED lastAccept
    /\ UNCHANGED ledger
    /\ UNCHANGED <<decVars, rcvVars, sesVars, engVars>>

(* with self.clients_lock: *)
StopLock ==
    /\ pcM = "stop_lock"
    /\ clients_lock = "free"
    /\ clients_lock' = "main"
    /\ si' = 1
    /\ pcM' = "stop_close"
    /\ UNCHANGED <<settings, running, server_socket, clients, closed, naccepted,
                   sent, pcA, pcS, bcLocals, encoded_data, nstart, startRet, nstop, stopped, lastError>>
    /\ UNCHANGED lastAccept
    /\ UNCHANGED ledger
    /\ UNCHANGED <<decVars, rcvVars, sesVars, engVars>>

(* for client in self.clients: client.close() *)
StopCloseClient ==
    /\ pcM = "stop_close"
    /\ si <= Len(clients)
    /\ closed' = closed \cup {clients[si]}
    /\ si' = si + 1
    /\ UNCHANGED <<settings, running, server_socket, clients, clients_lock,
                   naccepted, sent, pcM, pcA, pcS, bcLocals, encoded_data, nstart, startRet, nstop, stopped,
                   lastError>>
    /\ UNCHANGED lastAccept
    /\ UNCHANGED ledger
    /\ UNCHANGED <<decVars, rcvVars, sesVars, engVars>>

(* faulty variant: the handles are closed and the list is not cleared *)
StopClearKeepsClients ==
    /\ pcM = "stop_close"
    /\ si > Len(clients)
    /\ clients_lock' = "free"
    /\ pcM' = "stop_socket"
    /\ ncleared' = ncleared + Len(clients)
    /\ UNCHANGED <<settings, running, server_socket, clients, closed, naccepted, sent,
                   pcA, pcS, si, bcLocals, encoded_data, nstart, startRet, nstop,
                   stopped, lastError, lastAccept, nevicted, cut>>
    /\ UNCHANGED <<decVars, rcvVars, sesVars, engVars>>

(* self.clients.clear(), and the with block ends *)
StopClear ==
    /\ pcM = "stop_close"
    /\ si > Len(clients)
    /\ clients' = <<>>
    /\ clients_lock' = "free"
    /\ pcM' = "stop_socket"
    /\ UNCHANGED <<settings, running, server_socket, closed, naccepted, sent, pcA,
                   pcS, si, bcLocals, encoded_data, nstart, startRet, nstop, stopped, lastError>>
    /\ UNCHANGED lastAccept
    /\ ncleared' = ncleared + Len(clients)
    /\ UNCHANGED <<nevicted, cut>>
    /\ UNCHANGED <<decVars, rcvVars, sesVars, engVars>>

(* if self.server_socket: close it; close the capture; _notify_status *)
StopSocket ==
    /\ pcM = "stop_socket"
    /\ server_socket' = IF server_socket = "none" THEN "none" ELSE "closed"
    /\ stopped' = TRUE
    /\ pcM' = "idle"
    /\ UNCHANGED <<settings, running, registry, pcA, pcS, si, bcLocals, encoded_data,
                   nstart, startRet, nstop, lastError>>
    /\ UNCHANGED lastAccept
    /\ UNCHANGED ledger
    /\ UNCHANGED <<decVars, rcvVars, sesVars, engVars>>

----------------------------------------------------------------------------
(* StreamingServer._accept_clients *)

(* while self.running: *)
AcceptWhile ==
    /\ pcA = "while"
    /\ pcA' = IF running THEN "accept" ELSE "done"
    /\ UNCHANGED <<settings, running, server_socket, registry, pcM, pcS, si,
                   bcLocals, encoded_data, nstart, startRet, nstop, stopped, lastError>>
    /\ lastAccept' = "none"
    /\ UNCHANGED ledger
    /\ UNCHANGED <<decVars, rcvVars, sesVars, engVars>>

(* accept() returns a connection; TCP_NODELAY is set on it *)
AcceptConnection ==
    /\ pcA = "accept"
    /\ server_socket = "open"
    /\ naccepted < MaxConn
    /\ naccepted' = naccepted + 1
    /\ pcA' = "append"
    /\ UNCHANGED <<settings, running, server_socket, clients, clients_lock, closed,
                   sent, pcM, pcS, si, bcLocals, encoded_data, nstart, startRet, nstop, stopped, lastError>>
    /\ lastAccept' = "connection"
    /\ UNCHANGED ledger
    /\ UNCHANGED <<decVars, rcvVars, sesVars, engVars>>

(* accept() times out after a second: continue *)
AcceptTimeout ==
    /\ pcA = "accept"
    /\ server_socket = "open"
    /\ pcA' = "while"
    /\ UNCHANGED <<settings, running, server_socket, registry, pcM, pcS, si,
                   bcLocals, encoded_data, nstart, startRet, nstop, stopped, lastError>>
    /\ lastAccept' = "timeout"
    /\ UNCHANGED ledger
    /\ UNCHANGED <<decVars, rcvVars, sesVars, engVars>>

(* accept() raises something else, as it does on a closed socket:        *)
(* except Exception: if self.running, the error is to be reported; the   *)
(* loop goes on either way                                               *)
AcceptFault ==
    /\ pcA = "accept"
    /\ pcA' = IF running THEN "report" ELSE "while"
    /\ UNCHANGED <<settings, running, server_socket, registry, pcM, pcS, si,
                   bcLocals, encoded_data, nstart, startRet, nstop, stopped, lastError>>
    /\ lastAccept' = "fault"
    /\ UNCHANGED ledger
    /\ UNCHANGED <<decVars, rcvVars, sesVars, engVars>>

(* faulty variant: the accept loop ends after its report *)
AcceptReportEndsLoop ==
    /\ pcA = "report"
    /\ pcA' = "done"
    /\ UNCHANGED <<settings, running, server_socket, registry, pcM, pcS, si,
                   bcLocals, encoded_data, nstart, startRet, nstop, stopped, lastError>>
    /\ lastAccept' = "reported"
    /\ UNCHANGED ledger
    /\ UNCHANGED <<decVars, rcvVars, sesVars, engVars>>

(* self._notify_error("Accept error: ...") *)
AcceptReport ==
    /\ pcA = "report"
    /\ pcA' = "while"
    /\ UNCHANGED <<settings, running, server_socket, registry, pcM, pcS, si,
                   bcLocals, encoded_data, nstart, startRet, nstop, stopped, lastError>>
    /\ lastAccept' = "reported"
    /\ UNCHANGED ledger
    /\ UNCHANGED <<decVars, rcvVars, sesVars, engVars>>

(* faulty variant: the lock is kept when the with block is left *)
AcceptAppendKeepsLock ==
    /\ pcA = "appending"
    /\ clients' = Append(clients, naccepted)
    /\ pcA' = "notify"
    /\ UNCHANGED <<settings, running, server_socket, clients_lock, closed,
                   naccepted, sent, pcM, pcS, si, bcLocals, encoded_data,
                   nstart, startRet, nstop, stopped, lastError>>
    /\ UNCHANGED lastAccept
    /\ UNCHANGED ledger
    /\ UNCHANGED <<decVars, rcvVars, sesVars, engVars>>

(* faulty variant: the accept thread enters without waiting for the lock *)
AcceptLockNoWait ==
    /\ pcA = "append"
    /\ clients_lock' = "accept"
    /\ pcA' = "appending"
    /\ UNCHANGED <<settings, running, server_socket, clients, closed, naccepted,
                   sent, pcM, pcS, si, bcLocals, encoded_data, nstart, startRet,
                   nstop, stopped, lastError, lastAccept, ledger>>
    /\ UNCHANGED <<decVars, rcvVars, sesVars, engVars>>

(* with self.clients_lock: *)
AcceptLock ==
    /\ pcA = "append"
    /\ clients_lock = "free"
    /\ clients_lock' = "accept"
    /\ pcA' = "appending"
    /\ UNCHANGED <<settings, running, server_socket, clients, closed, naccepted,
                   sent, pcM, pcS, si, bcLocals, encoded_data, nstart, startRet,
                   nstop, stopped, lastError>>
    /\ UNCHANGED lastAccept
    /\ UNCHANGED ledger
    /\ UNCHANGED <<decVars, rcvVars, sesVars, engVars>>

(* self.clients.append(client_socket), and the with block ends *)
AcceptAppend ==
    /\ pcA = "appending"
    /\ clients' = Append(clients, naccepted)
    /\ clients_lock' = "free"
    /\ pcA' = "notify"
    /\ UNCHANGED <<settings, running, server_socket, closed, naccepted, sent,
                   pcM, pcS, si, bcLocals, encoded_data, nstart, startRet, nstop, stopped,
                   lastError>>
    /\ UNCHANGED lastAccept
    /\ UNCHANGED ledger
    /\ UNCHANGED <<decVars, rcvVars, sesVars, engVars>>

(* _notify_status and on_client_connect, outside the lock *)
AcceptNotify ==
    /\ pcA = "notify"
    /\ pcA' = "while"
    /\ UNCHANGED <<settings, running, server_socket, registry, pcM, pcS, si,
                   bcLocals, encoded_data, nstart, startRet, nstop, stopped, lastError>>
    /\ UNCHANGED lastAccept
    /\ UNCHANGED ledger
    /\ UNCHANGED <<decVars, rcvVars, sesVars, engVars>>

----------------------------------------------------------------------------
(* StreamingServer._stream_loop and _broadcast *)

(* while self.running: *)
StreamWhile ==
    /\ pcS = "while"
    /\ pcS' = IF running THEN "capture" ELSE "done"
    /\ UNCHANGED <<settings, running, server_socket, registry, pcM, pcA, si,
                   bcLocals, encoded_data, nstart, startRet, nstop, stopped, lastError>>
    /\ UNCHANGED lastAccept
    /\ UNCHANGED ledger
    /\ UNCHANGED <<decVars, rcvVars, sesVars, engVars>>

(* frame = self.capture.capture_frame() *)
StreamCapture ==
    /\ pcS = "capture"
    /\ encoded_data < MaxFrames
    /\ pcS' = "encode"
    /\ UNCHANGED <<settings, running, server_socket, registry, pcM, pcA, si,
                   bcLocals, encoded_data, nstart, startRet, nstop, stopped, lastError>>
    /\ UNCHANGED lastAccept
    /\ UNCHANGED ledger
    /\ UNCHANGED <<decVars, rcvVars, sesVars, engVars>>

(* capture_frame raises: except Exception reports "Stream error" *)
StreamCaptureFault ==
    /\ pcS = "capture"
    /\ lastError' = "capture"
    /\ pcS' = "pace"
    /\ UNCHANGED <<settings, running, server_socket, registry, pcM, pcA, si,
                   bcLocals, encoded_data, nstart, startRet, nstop, stopped>>
    /\ UNCHANGED lastAccept
    /\ UNCHANGED ledger
    /\ UNCHANGED <<decVars, rcvVars, sesVars, engVars>>

(* encoded_data = self.encoder.encode(frame) *)
StreamEncode ==
    /\ pcS = "encode"
    /\ encoded_data' = encoded_data + 1
    /\ pcS' = "bc_lock"
    /\ UNCHANGED <<settings, running, server_socket, registry, pcM, pcA, si,
                   bcLocals, nstart, startRet, nstop, stopped, lastError>>
    /\ UNCHANGED lastAccept
    /\ UNCHANGED ledger
    /\ UNCHANGED <<decVars, rcvVars, sesVars, engVars>>

(* encode raises: except Exception reports "Stream error" *)
StreamEncodeFault ==
    /\ pcS = "encode"
    /\ lastError' = "encode"
    /\ pcS' = "pace"
    /\ UNCHANGED <<settings, running, server_socket, registry, pcM, pcA, si,
                   bcLocals, encoded_data, nstart, startRet, nstop, stopped>>
    /\ UNCHANGED lastAccept
    /\ UNCHANGED ledger
    /\ UNCHANGED <<decVars, rcvVars, sesVars, engVars>>

(* _broadcast: disconnected = []; with self.clients_lock: *)
BroadcastLock ==
    /\ pcS = "bc_lock"
    /\ clients_lock = "free"
    /\ clients_lock' = "stream"
    /\ disconnected' = <<>>
    /\ passClients' = clients
    /\ bi' = 1
    /\ pcS' = "bc_send"
    /\ UNCHANGED <<settings, running, server_socket, clients, closed, naccepted,
                   sent, pcM, pcA, si, encoded_data, nstart, startRet, nstop, stopped, lastError>>
    /\ UNCHANGED lastAccept
    /\ UNCHANGED ledger
    /\ UNCHANGED <<decVars, rcvVars, sesVars, engVars>>

(* for client in self.clients: client.sendall(data) *)
BroadcastSend ==
    /\ pcS = "bc_send"
    /\ bi <= Len(clients)
    /\ sent' = [sent EXCEPT ![clients[bi]] = Append(@, encoded_data)]
    /\ bi' = bi + 1
    /\ UNCHANGED <<settings, running, server_socket, clients, clients_lock, closed,
                   naccepted, pcM, pcA, pcS, si, disconnected, passClients,
                   encoded_data, nstart, startRet, nstop, stopped, lastError>>
    /\ UNCHANGED lastAccept
    /\ UNCHANGED ledger
    /\ UNCHANGED <<decVars, rcvVars, sesVars, engVars>>

(* faulty variant: sendall raises and the for loop ends there *)
BroadcastSendFaultAborts ==
    /\ pcS = "bc_send"
    /\ bi <= Len(clients)
    /\ disconnected' = Append(disconnected, clients[bi])
    /\ bi' = Len(clients) + 1
    /\ UNCHANGED <<settings, running, server_socket, registry, pcM, pcA, pcS, si,
                   passClients, encoded_data, nstart, startRet, nstop, stopped, lastError>>
    /\ UNCHANGED lastAccept
    /\ UNCHANGED ledger
    /\ UNCHANGED <<decVars, rcvVars, sesVars, engVars>>

(* sendall raises before it wrote anything: except Exception: *)
(* disconnected.append(client)                                *)
BroadcastSendFault ==
    /\ pcS = "bc_send"
    /\ bi <= Len(clients)
    /\ disconnected' = Append(disconnected, clients[bi])
    /\ bi' = bi + 1
    /\ UNCHANGED <<settings, running, server_socket, registry, pcM, pcA, pcS, si,
                   passClients, encoded_data, nstart, startRet, nstop, stopped, lastError>>
    /\ UNCHANGED lastAccept
    /\ UNCHANGED ledger
    /\ UNCHANGED <<decVars, rcvVars, sesVars, engVars>>

(* sendall raises after it wrote part of the message: the same handler *)
BroadcastSendCut ==
    /\ pcS = "bc_send"
    /\ bi <= Len(clients)
    /\ disconnected' = Append(disconnected, clients[bi])
    /\ cut' = cut \cup {clients[bi]}
    /\ bi' = bi + 1
    /\ UNCHANGED <<settings, running, server_socket, registry, pcM, pcA, pcS, si,
                   passClients, encoded_data, nstart, startRet, nstop, stopped,
                   lastError, lastAccept, nevicted, ncleared>>
    /\ UNCHANGED <<decVars, rcvVars, sesVars, engVars>>

(* the for loop over self.clients ends; for client in disconnected: *)
BroadcastSendEnd ==
    /\ pcS = "bc_send"
    /\ bi > Len(clients)
    /\ bi' = 1
    /\ pcS' = "bc_remove"
    /\ UNCHANGED <<settings, running, server_socket, registry, pcM, pcA, si,
                   disconnected, passClients, encoded_data, nstart, startRet, nstop, stopped,
                   lastError>>
    /\ UNCHANGED lastAccept
    /\ UNCHANGED ledger
    /\ UNCHANGED <<decVars, rcvVars, sesVars, engVars>>

(* self.clients.remove(client) *)
BroadcastRemove ==
    /\ pcS = "bc_remove"
    /\ bi <= Len(disconnected)
    /\ clients' = Remove(clients, disconnected[bi])
    /\ pcS' = "bc_close"
    /\ UNCHANGED <<settings, running, server_socket, clients_lock, closed,
                   naccepted, sent, pcM, pcA, si, bcLocals, encoded_data, nstart, startRet,
                   nstop, stopped, lastError>>
    /\ UNCHANGED lastAccept
    /\ nevicted' = nevicted + 1
    /\ UNCHANGED <<ncleared, cut>>
    /\ UNCHANGED <<decVars, rcvVars, sesVars, engVars>>

(* client.close(); disconnect_count += 1 *)
BroadcastClose ==
    /\ pcS = "bc_close"
    /\ closed' = closed \cup {disconnected[bi]}
    /\ bi' = bi + 1
    /\ pcS' = "bc_remove"
    /\ UNCHANGED <<settings, running, server_socket, clients, clients_lock,
                   naccepted, sent, pcM, pcA, si, disconnected, passClients,
                   encoded_data, nstart, startRet, nstop, stopped, lastError>>
    /\ UNCHANGED lastAccept
    /\ UNCHANGED ledger
    /\ UNCHANGED <<decVars, rcvVars, sesVars, engVars>>

(* the for loop over disconnected ends, and the with block with it *)
BroadcastUnlock ==
    /\ pcS = "bc_remove"
    /\ bi > Len(disconnected)
    /\ clients_lock' = "free"
    /\ pcS' = "bc_notify"
    /\ UNCHANGED <<settings, running, server_socket, clients, closed, naccepted,
                   sent, pcM, pcA, si, bcLocals, encoded_data, nstart, startRet, nstop, stopped,
                   lastError>>
    /\ UNCHANGED lastAccept
    /\ UNCHANGED ledger
    /\ UNCHANGED <<decVars, rcvVars, sesVars, engVars>>

(* the notifications, outside the lock; _broadcast returns *)
BroadcastNotify ==
    /\ pcS = "bc_notify"
    /\ pcS' = "pace"
    /\ UNCHANGED <<settings, running, server_socket, registry, pcM, pcA, si,
                   bcLocals, encoded_data, nstart, startRet, nstop, stopped, lastError>>
    /\ UNCHANGED lastAccept
    /\ UNCHANGED ledger
    /\ UNCHANGED <<decVars, rcvVars, sesVars, engVars>>

(* frame_time = 1.0 / self.fps, outside the try: a zero fps ends the thread; *)
(* otherwise sleep what is left of the frame time                           *)
StreamPace ==
    /\ pcS = "pace"
    /\ pcS' = IF fps = 0 THEN "dead" ELSE "while"
    /\ UNCHANGED <<settings, running, server_socket, registry, pcM, pcA, si,
                   bcLocals, encoded_data, nstart, startRet, nstop, stopped, lastError>>
    /\ UNCHANGED lastAccept
    /\ UNCHANGED ledger
    /\ UNCHANGED <<decVars, rcvVars, sesVars, engVars>>

----------------------------------------------------------------------------
(* StreamingClient: one connection, its receive loop, and a consumer thread *)
(* that calls get_frame                                                     *)

(* StreamingClient.__init__ *)
InitClient ==
    /\ r_running = FALSE
    /\ connected = FALSE
    /\ current_frame = None
    /\ frame_lock = "free"
    /\ frame_count = 0
    /\ r_fps = 0
    /\ pcR = "none"
    /\ frame = None
    /\ r_event = "none"
    /\ pcC = "idle"
    /\ obs = None
    /\ published = <<>>
    /\ elapsed = 0
    /\ fps_mark = 0
    /\ pcD = "idle"

(* the client is not part of the specification *)
IdleClient == InitClient

decHistory == <<pc, ret, path, frames, nadd, ncall>>
clock == <<elapsed, fps_mark>>
slot == <<current_frame, frame_lock, frame_count, r_fps, published, clock>>

(* the 1.0 of `current_time - self.last_fps_time >= 1.0`, in ticks *)
Second == 2
consumer == <<pcC, obs>>

(* connect() succeeds: FrameDecoder(), connected and running are set, the *)
(* receive thread is started                                              *)
Connect ==
    /\ pcR = "none"
    /\ buffer' = <<>>
    /\ connected' = TRUE
    /\ r_running' = TRUE
    /\ pcR' = "while"
    /\ r_event' = "connected"
    /\ UNCHANGED <<wire, msgs, decHistory, slot, frame, consumer>>
    /\ UNCHANGED pcD
    /\ UNCHANGED <<srvVars, sesVars, engVars>>

(* connect() fails (timeout, refused, other): the error is reported *)
ConnectFault ==
    /\ pcR = "none"
    /\ r_event' = "connect_error"
    /\ UNCHANGED <<buffer, wire, msgs, decHistory, r_running, connected, slot, pcR,
                   frame, consumer>>
    /\ UNCHANGED pcD
    /\ UNCHANGED <<srvVars, sesVars, engVars>>

(* while self.running: *)
ReceiveWhile ==
    /\ pcR = "while"
    /\ pcR' = IF r_running THEN "recv" ELSE "done"
    /\ UNCHANGED <<buffer, wire, msgs, decHistory, r_running, connected, slot,
                   frame, r_event, consumer>>
    /\ UNCHANGED pcD
    /\ UNCHANGED <<srvVars, sesVars, engVars>>

(* data = self.socket.recv(65536), not empty; self.decoder.add_data(data) *)
ReceiveData ==
    /\ pcR = "recv"
    /\ wire # <<>>
    /\ \E k \in 1..Len(wire) :
        /\ buffer' = buffer \o Take(wire, k)
        /\ wire' = Drop(wire, k)
    /\ pcR' = "drain"
    /\ UNCHANGED <<msgs, decHistory, r_running, connected, slot, frame, r_event,
                   consumer>>
    /\ UNCHANGED pcD
    /\ UNCHANGED <<srvVars, sesVars, engVars>>

(* recv returns no bytes: "Server closed connection", self.disconnect() *)
(* (running and connected off, socket closed, decoder cleared), break   *)
ReceiveClosed ==
    /\ pcR = "recv"
    /\ r_running' = FALSE
    /\ connected' = FALSE
    /\ buffer' = <<>>
    /\ r_event' = "closed"
    /\ pcR' = "done"
    /\ UNCHANGED <<wire, msgs, decHistory, slot, frame, consumer>>
    /\ UNCHANGED pcD
    /\ UNCHANGED <<srvVars, sesVars, engVars>>

(* recv raises: the error is reported, self.disconnect(), break *)
ReceiveFault ==
    /\ pcR = "recv"
    /\ r_running' = FALSE
    /\ connected' = FALSE
    /\ buffer' = <<>>
    /\ r_event' = "error"
    /\ pcR' = "done"
    /\ UNCHANGED <<wire, msgs, decHistory, slot, frame, consumer>>
    /\ UNCHANGED pcD
    /\ UNCHANGED <<srvVars, sesVars, engVars>>

(* frame = self.decoder.get_frame(); if frame is None: break *)
ReceiveGetFrame ==
    /\ pcR = "drain"
    /\ frame' = GetFrameReturn(buffer)
    /\ buffer' = GetFrameBuffer(buffer)
    /\ pcR' = IF frame'.ok THEN "lock" ELSE "while"
    /\ UNCHANGED <<wire, msgs, decHistory, r_running, connected, slot, r_event,
                   consumer>>
    /\ UNCHANGED pcD
    /\ UNCHANGED <<srvVars, sesVars, engVars>>

(* with self.frame_lock: *)
PublishLock ==
    /\ pcR = "lock"
    /\ frame_lock = "free"
    /\ frame_lock' = "loop"
    /\ pcR' = "store"
    /\ UNCHANGED <<buffer, wire, msgs, decHistory, r_running, connected,
                   current_frame, frame_count, r_fps, published, clock, frame, r_event,
                   consumer>>
    /\ UNCHANGED pcD
    /\ UNCHANGED <<srvVars, sesVars, engVars>>

(* faulty variant: the frame is stored only into an empty slot *)
PublishStoreKeepsFirst ==
    /\ pcR = "store"
    /\ current_frame' = IF current_frame.ok THEN current_frame ELSE frame
    /\ frame_count' = frame_count + 1
    /\ published' = Append(published, frame)
    /\ frame_lock' = "free"
    /\ pcR' = "fps"
    /\ UNCHANGED <<buffer, wire, msgs, decHistory, r_running, connected, r_fps,
                   clock, frame, r_event, consumer>>
    /\ UNCHANGED pcD
    /\ UNCHANGED <<srvVars, sesVars, engVars>>

(* self.current_frame = frame; self.frame_count += 1; the with block ends *)
PublishStore ==
    /\ pcR = "store"
    /\ current_frame' = frame
    /\ frame_count' = frame_count + 1
    /\ published' = Append(published, frame)
    /\ frame_lock' = "free"
    /\ pcR' = "fps"
    /\ UNCHANGED <<buffer, wire, msgs, decHistory, r_running, connected, r_fps,
                   clock, frame, r_event, consumer>>
    /\ UNCHANGED pcD
    /\ UNCHANGED <<srvVars, sesVars, engVars>>

(* faulty variant: the estimate is taken and the counter is left as it is *)
FpsWindowKeepsCount ==
    /\ pcR = "fps"
    /\ elapsed >= Second
    /\ r_fps' = frame_count
    /\ elapsed' = 0
    /\ fps_mark' = Len(published)
    /\ pcR' = "drain"
    /\ UNCHANGED <<buffer, wire, msgs, decHistory, r_running, connected,
                   current_frame, frame_lock, frame_count, published, frame,
                   r_event, consumer>>
    /\ UNCHANGED pcD
    /\ UNCHANGED <<srvVars, sesVars, engVars>>

(* current_time - self.last_fps_time >= 1.0: self.fps = self.frame_count, *)
(* self.frame_count = 0, self.last_fps_time = current_time; then          *)
(* on_frame(frame)                                                        *)
FpsWindow ==
    /\ pcR = "fps"
    /\ elapsed >= Second
    /\ r_fps' = frame_count
    /\ frame_count' = 0
    /\ elapsed' = 0
    /\ fps_mark' = Len(published)
    /\ pcR' = "drain"
    /\ UNCHANGED <<buffer, wire, msgs, decHistory, r_running, connected,
                   current_frame, frame_lock, published, frame, r_event, consumer>>
    /\ UNCHANGED pcD
    /\ UNCHANGED <<srvVars, sesVars, engVars>>

(* less than a second has passed; then on_frame(frame) *)
FpsSkip ==
    /\ pcR = "fps"
    /\ elapsed < Second
    /\ pcR' = "drain"
    /\ UNCHANGED <<buffer, wire, msgs, decHistory, r_running, connected, slot,
                   frame, r_event, consumer>>
    /\ UNCHANGED pcD
    /\ UNCHANGED <<srvVars, sesVars, engVars>>

(* StreamingClient.get_frame: with self.frame_lock: *)
ConsumerLock ==
    /\ pcC = "idle"
    /\ frame_lock = "free"
    /\ frame_lock' = "consumer"
    /\ pcC' = "read"
    /\ UNCHANGED <<buffer, wire, msgs, decHistory, r_running, connected,
                   current_frame, frame_count, r_fps, published, clock, pcR, frame,
                   r_event, obs>>
    /\ UNCHANGED pcD
    /\ UNCHANGED <<srvVars, sesVars, engVars>>

(* return self.current_frame; the with block ends *)
ConsumerRead ==
    /\ pcC = "read"
    /\ obs' = current_frame
    /\ frame_lock' = "free"
    /\ pcC' = "idle"
    /\ UNCHANGED <<buffer, wire, msgs, decHistory, r_running, connected,
                   current_frame, frame_count, r_fps, published, clock, pcR, frame,
                   r_event>>
    /\ UNCHANGED pcD
    /\ UNCHANGED <<srvVars, sesVars, engVars>>

----------------------------------------------------------------------------

(* time passes *)
Tick ==
    /\ elapsed < MaxElapsed
    /\ elapsed' = elapsed + 1
    /\ UNCHANGED <<buffer, wire, msgs, decHistory, r_running, connected,
                   current_frame, frame_lock, frame_count, r_fps, published,
                   fps_mark, pcR, frame, r_event, consumer>>
    /\ UNCHANGED pcD
    /\ UNCHANGED <<srvVars, sesVars, engVars>>

----------------------------------------------------------------------------
(* StreamingClient: disconnect() called from another thread while the      *)
(* receive loop of the one connection runs                                  *)

(* disconnect(): self.running = False; self.connected = False; called on a *)
(* client that connect() was called on                                     *)
CallerDisconnect ==
    /\ pcD = "idle"
    /\ pcR # "none"
    /\ r_running' = FALSE
    /\ connected' = FALSE
    /\ pcD' = "close"
    /\ UNCHANGED <<buffer, wire, msgs, decHistory, slot, pcR, frame, r_event,
                   consumer>>
    /\ UNCHANGED <<srvVars, sesVars, engVars>>

(* if self.socket: self.socket.close(); self.socket = None *)
CallerClose ==
    /\ pcD = "close"
    /\ pcD' = "clear"
    /\ UNCHANGED <<buffer, wire, msgs, decHistory, r_running, connected, slot, pcR,
                   frame, r_event, consumer>>
    /\ UNCHANGED <<srvVars, sesVars, engVars>>

(* if self.decoder: self.decoder.clear(); _notify_status("Disconnected"); *)
(* on_disconnect(); disconnect() returns                                  *)
CallerClear ==
    /\ pcD = "clear"
    /\ buffer' = <<>>
    /\ pcD' = "returned"
    /\ UNCHANGED <<wire, msgs, decHistory, r_running, connected, slot, pcR, frame,
                   r_event, consumer>>
    /\ UNCHANGED <<srvVars, sesVars, engVars>>

(* recv raises on the socket disconnect() has closed or unset: except   *)
(* Exception: running is False, nothing is reported; break               *)
ReceiveStopped ==
    /\ pcR = "recv"
    /\ ~r_running
    /\ pcR' = "done"
    /\ UNCHANGED <<buffer, wire, msgs, decHistory, r_running, connected, slot,
                   frame, r_event, consumer>>
    /\ UNCHANGED pcD
    /\ UNCHANGED <<srvVars, sesVars, engVars>>

----------------------------------------------------------------------------
(* StreamingClient: its sessions.  connect() may be called again at any     *)
(* time and disconnect() runs in the caller's thread or in a receive        *)
(* thread; what the receive loop does with the bytes is left out here.      *)

Loops == 1..MaxConnects

Threads == 0..MaxConnects

(* StreamingClient.__init__; the caller's thread is at p *)
InitSessionAt(p) ==
    /\ c_socket = 0
    /\ c_decoder = 0
    /\ sockst = [k \in Loops |-> "none"]
    /\ cpc = [th \in Threads |-> IF th = 0 THEN p ELSE "none"]
    /\ lsock = [t \in Loops |-> 0]
    /\ nconnect = 0
    /\ connectRet = "none"
    /\ c_errors = 0
    /\ c_ondisc = 0
    /\ ndisconnect = 0

InitSession == InitSessionAt("idle")

(* the sessions are not part of the specification: nobody calls the client *)
IdleSession == InitSessionAt("off")

oneLoop == <<pcR, frame, r_event>>

observers == <<c_errors, c_ondisc>>

(* connect(): self.socket = socket.socket(...); settimeout(5.0) *)
ConnectBegin ==
    /\ cpc[0] = "idle"
    /\ nconnect < MaxConnects
    /\ nconnect' = nconnect + 1
    /\ c_socket' = nconnect + 1
    /\ sockst' = [sockst EXCEPT ![nconnect + 1] = "new"]
    /\ connectRet' = "none"
    /\ cpc' = [cpc EXCEPT ![0] = "connecting"]
    /\ UNCHANGED <<c_decoder, lsock, r_running, connected>>
    /\ UNCHANGED <<observers, ndisconnect>>
    /\ UNCHANGED <<decVars, srvVars, slot, oneLoop, consumer, pcD, engVars>>

(* self.socket.connect(...), settimeout, setsockopt raise (timeout, refused, *)
(* or anything else, a socket another thread has taken away included):      *)
(* control goes to one of the except clauses of connect                     *)
ConnectRaises ==
    /\ cpc[0] = "connecting"
    /\ cpc' = [cpc EXCEPT ![0] = "connect_error"]
    /\ UNCHANGED <<c_socket, c_decoder, sockst, lsock, nconnect, connectRet,
                   r_running, connected>>
    /\ UNCHANGED <<observers, ndisconnect>>
    /\ UNCHANGED <<decVars, srvVars, slot, oneLoop, consumer, pcD, engVars>>

(* except ...: self._notify_error(...); return False *)
ConnectError ==
    /\ cpc[0] = "connect_error"
    /\ connectRet' = "False"
    /\ cpc' = [cpc EXCEPT ![0] = "idle"]
    /\ UNCHANGED <<c_socket, c_decoder, sockst, lsock, nconnect, r_running,
                   connected>>
    /\ c_errors' = c_errors + 1
    /\ UNCHANGED <<c_ondisc, ndisconnect>>
    /\ UNCHANGED <<decVars, srvVars, slot, oneLoop, consumer, pcD, engVars>>

(* the connection is made; self.decoder = FrameDecoder();                *)
(* self.connected = True; self.running = True                            *)
ConnectEstablished ==
    /\ cpc[0] = "connecting"
    /\ c_socket = nconnect
    /\ sockst[nconnect] = "new"
    /\ sockst' = [sockst EXCEPT ![nconnect] = "connected"]
    /\ c_decoder' = nconnect
    /\ connected' = TRUE
    /\ r_running' = TRUE
    /\ cpc' = [cpc EXCEPT ![0] = "spawn"]
    /\ UNCHANGED <<c_socket, lsock, nconnect, connectRet>>
    /\ UNCHANGED <<observers, ndisconnect>>
    /\ UNCHANGED <<decVars, srvVars, slot, oneLoop, consumer, pcD, engVars>>

(* receive_thread.start(); _notify_status("Connected ..."); return True *)
ConnectSpawn ==
    /\ cpc[0] = "spawn"
    /\ connectRet' = "True"
    /\ cpc' = [cpc EXCEPT ![0] = "idle", ![nconnect] = "while"]
    /\ UNCHANGED <<c_socket, c_decoder, sockst, lsock, nconnect, r_running,
                   connected>>
    /\ UNCHANGED <<observers, ndisconnect>>
    /\ UNCHANGED <<decVars, srvVars, slot, oneLoop, consumer, pcD, engVars>>

(* the caller's thread calls disconnect() *)
DisconnectCall ==
    /\ cpc[0] = "idle"
    /\ ndisconnect < MaxDisconnects
    /\ ndisconnect' = ndisconnect + 1
    /\ cpc' = [cpc EXCEPT ![0] = "disc_flags"]
    /\ UNCHANGED <<c_socket, c_decoder, sockst, lsock, nconnect, connectRet,
                   r_running, connected>>
    /\ UNCHANGED observers
    /\ UNCHANGED <<decVars, srvVars, slot, oneLoop, consumer, pcD, engVars>>

(* disconnect(): self.running = False; self.connected = False *)
DisconnectFlags(th) ==
    /\ cpc[th] = "disc_flags"
    /\ r_running' = FALSE
    /\ connected' = FALSE
    /\ cpc' = [cpc EXCEPT ![th] = "disc_close"]
    /\ UNCHANGED <<c_socket, c_decoder, sockst, lsock, nconnect, connectRet>>
    /\ UNCHANGED <<observers, ndisconnect>>
    /\ UNCHANGED <<decVars, srvVars, slot, oneLoop, consumer, pcD, engVars>>

(* if self.socket: close it, self.socket = None; if self.decoder: clear it *)
DisconnectClose(th) ==
    /\ cpc[th] = "disc_close"
    /\ sockst' = IF c_socket = 0 THEN sockst
                 ELSE [sockst EXCEPT ![c_socket] = "closed"]
    /\ c_socket' = 0
    /\ cpc' = [cpc EXCEPT ![th] = "disc_notify"]
    /\ UNCHANGED <<c_decoder, lsock, nconnect, connectRet, r_running, connected>>
    /\ UNCHANGED <<observers, ndisconnect>>
    /\ UNCHANGED <<decVars, srvVars, slot, oneLoop, consumer, pcD, engVars>>

(* _notify_status("Disconnected"); self.on_disconnect(); disconnect returns: to *)
(* the caller, or to the receive loop, which breaks                        *)
DisconnectNotify(th) ==
    /\ cpc[th] = "disc_notify"
    /\ cpc' = [cpc EXCEPT ![th] = IF th = 0 THEN "idle" ELSE "done"]
    /\ UNCHANGED <<c_socket, c_decoder, sockst, lsock, nconnect, connectRet,
                   r_running, connected>>
    /\ c_ondisc' = c_ondisc + 1
    /\ UNCHANGED <<c_errors, ndisconnect>>
    /\ UNCHANGED <<decVars, srvVars, slot, oneLoop, consumer, pcD, engVars>>

(* a step of receive thread t that calls _notify_error and changes nothing *)
(* else but where the thread is                                           *)
LoopReports(t, from, to) ==
    /\ cpc[t] = from
    /\ cpc' = [cpc EXCEPT ![t] = to]
    /\ c_errors' = c_errors + 1
    /\ UNCHANGED <<c_socket, c_decoder, sockst, lsock, nconnect, connectRet,
                   r_running, connected, c_ondisc, ndisconnect>>
    /\ UNCHANGED <<decVars, srvVars, slot, oneLoop, consumer, pcD, engVars>>

(* a step of receive thread t that changes nothing but where the thread is *)
LoopGoes(t, from, to) ==
    /\ cpc[t] = from
    /\ cpc' = [cpc EXCEPT ![t] = to]
    /\ UNCHANGED <<c_socket, c_decoder, sockst, lsock, nconnect, connectRet,
                   r_running, connected>>
    /\ UNCHANGED <<observers, ndisconnect>>
    /\ UNCHANGED <<decVars, srvVars, slot, oneLoop, consumer, pcD, engVars>>

(* while self.running: *)
LoopWhile(t) == LoopGoes(t, "while", IF r_running THEN "recv" ELSE "done")

(* self.socket is a socket with a live connection *)
Readable == c_socket # 0 /\ sockst[c_socket] = "connected"

(* self.socket.recv(65536) is called, on what self.socket is now: the call *)
(* waits for the peer (the socket has no timeout since connect()), or is   *)
(* about to raise, self.socket being None or closed                        *)
LoopRecvCall(t) ==
    /\ cpc[t] = "recv"
    /\ lsock' = [lsock EXCEPT ![t] = c_socket]
    /\ cpc' = [cpc EXCEPT ![t] = IF Readable THEN "blocked" ELSE "raising"]
    /\ UNCHANGED <<c_socket, c_decoder, sockst, nconnect, connectRet, r_running,
                   connected>>
    /\ UNCHANGED <<observers, ndisconnect>>
    /\ UNCHANGED <<decVars, srvVars, slot, oneLoop, consumer, pcD, engVars>>

(* A recv in progress returns when the peer sends, closes or resets, or  *)
(* with a fault of the platform.  What a close() of the socket by another *)
(* thread does to it is the platform's: the call raises, or it goes on    *)
(* waiting for the peer, whose bytes it can still return.                 *)

(* recv returns bytes *)
LoopRecvData(t) == LoopGoes(t, "blocked", "got")

(* recv returns no bytes: the peer has closed the connection *)
LoopRecvEmpty(t) == LoopGoes(t, "blocked", "peer_closed")

(* recv raises ConnectionResetError: except ConnectionResetError:    *)
(* _notify_error("Connection reset by server"); self.disconnect()    *)
LoopRecvReset(t) == LoopReports(t, "blocked", "disc_flags")

(* a recv in progress raises anything else: control goes to except Exception *)
LoopRecvFault(t) == LoopGoes(t, "blocked", "except")

(* recv called on None or on a closed socket raises at once *)
LoopRecvRaises(t) == LoopGoes(t, "raising", "except")

(* self.decoder.add_data(data) and the frames it completes; without a *)
(* decoder the call raises                                            *)
LoopAddData(t) == LoopGoes(t, "got", IF c_decoder = 0 THEN "except" ELSE "while")

(* faulty variant: the loop breaks and leaves the client as it is *)
LoopPeerClosedBreaks(t) == LoopGoes(t, "peer_closed", "done")

(* if not data: _notify_status("Server closed connection"); self.disconnect() *)
LoopPeerClosed(t) == LoopGoes(t, "peer_closed", "disc_flags")

(* faulty variant: the handler breaks without a report or a disconnect *)
LoopExceptSilent(t) == LoopGoes(t, "except", "done")

(* except Exception: if self.running: _notify_error("Receive error");     *)
(* self.disconnect(); and break either way                                *)
LoopExcept(t) ==
    IF r_running THEN LoopReports(t, "except", "disc_flags")
    ELSE LoopGoes(t, "except", "done")

----------------------------------------------------------------------------
(* StreamingServer started and stopped in any order.  start() tests nothing *)
(* before it builds a socket and spawns its two threads, and stop() waits   *)
(* for no thread, so the threads of several runs can be alive together.     *)
(* The registry of clients and the frames are those of SpecServer and are   *)
(* left out here.                                                          *)

Runs == 1..MaxRuns

(* the server is not part of the specification *)
IdleEngine ==
    /\ e_running = FALSE
    /\ e_socket = 0
    /\ e_sockst = [k \in Runs |-> "none"]
    /\ e_pc = "off"
    /\ e_accept = [k \in Runs |-> "none"]
    /\ e_stream = [k \in Runs |-> "none"]
    /\ e_asock = [k \in Runs |-> 0]
    /\ nruns = 0
    /\ nhalts = 0

(* __init__: server_socket = None, running = False, no thread *)
InitEngine ==
    /\ e_running = FALSE
    /\ e_socket = 0
    /\ e_sockst = [k \in Runs |-> "none"]
    /\ e_pc = "idle"
    /\ e_accept = [k \in Runs |-> "none"]
    /\ e_stream = [k \in Runs |-> "none"]
    /\ e_asock = [k \in Runs |-> 0]
    /\ nruns = 0
    /\ nhalts = 0

engOthers == <<decVars, srvVars, rcvVars, sesVars>>

(* another socket of this server is bound to the port and listening *)
PortHeld == \E k \in Runs : k # e_socket /\ e_sockst[k] = "listening"

(* start(): self.server_socket = socket.socket(...), whatever running is  *)
(* and whatever threads are alive; the capture and the encoder built      *)
(* before it are those of SpecServer                                      *)
EngineStart ==
    /\ e_pc = "idle"
    /\ nruns < MaxRuns
    /\ nruns' = nruns + 1
    /\ e_socket' = nruns + 1
    /\ e_sockst' = [e_sockst EXCEPT ![nruns + 1] = "new"]
    /\ e_pc' = "bind"
    /\ UNCHANGED <<e_running, e_accept, e_stream, e_asock, nhalts, engOthers>>

(* the socket the call has made is bound, listens and has its timeout *)
EngineListens ==
    /\ e_sockst' = [e_sockst EXCEPT ![e_socket] = "listening"]
    /\ e_pc' = "flag"
    /\ UNCHANGED <<e_running, e_socket, e_accept, e_stream, e_asock, nruns, nhalts,
                   engOthers>>

(* setsockopt(SO_REUSEADDR), bind, listen, settimeout(1.0) with the port *)
(* free: stop() has closed the socket that held it                        *)
EngineBind ==
    /\ e_pc = "bind"
    /\ ~PortHeld
    /\ EngineListens

(* the same with the port held by an earlier socket of this server, on a *)
(* platform whose SO_REUSEADDR lets a second socket bind to it            *)
EngineBindShared ==
    /\ e_pc = "bind"
    /\ PortHeld
    /\ EngineListens

(* bind raises, as it does where the platform refuses a port that is held: *)
(* except Exception: _notify_error(...); return False.  The socket stays   *)
(* in self.server_socket, unbound and open.                                *)
EngineBindFault ==
    /\ e_pc = "bind"
    /\ e_pc' = "idle"
    /\ UNCHANGED <<e_running, e_socket, e_sockst, e_accept, e_stream, e_asock,
                   nruns, nhalts, engOthers>>

(* self.running = True *)
EngineFlag ==
    /\ e_pc = "flag"
    /\ e_running' = TRUE
    /\ e_pc' = "accept_thread"
    /\ UNCHANGED <<e_socket, e_sockst, e_accept, e_stream, e_asock, nruns, nhalts,
                   engOthers>>

(* threading.Thread(target=self._accept_clients, daemon=True).start() *)
EngineAcceptThread ==
    /\ e_pc = "accept_thread"
    /\ e_accept' = [e_accept EXCEPT ![nruns] = "while"]
    /\ e_pc' = "stream_thread"
    /\ UNCHANGED <<e_running, e_socket, e_sockst, e_stream, e_asock, nruns, nhalts,
                   engOthers>>

(* threading.Thread(target=self._stream_loop, daemon=True).start(); *)
(* _notify_status(...); return True                                 *)
EngineStreamThread ==
    /\ e_pc = "stream_thread"
    /\ e_stream' = [e_stream EXCEPT ![nruns] = "while"]
    /\ e_pc' = "idle"
    /\ UNCHANGED <<e_running, e_socket, e_sockst, e_accept, e_asock, nruns, nhalts,
                   engOthers>>

(* stop(): self.running = False, then the registry is closed and cleared *)
EngineStop ==
    /\ e_pc = "idle"
    /\ nhalts < MaxHalts
    /\ nhalts' = nhalts + 1
    /\ e_running' = FALSE
    /\ e_pc' = "stop_socket"
    /\ UNCHANGED <<e_socket, e_sockst, e_accept, e_stream, e_asock, nruns, engOthers>>

(* if self.server_socket: self.server_socket.close(); the capture is     *)
(* closed and stop() returns.  It unsets nothing and joins no thread.    *)
EngineStopSocket ==
    /\ e_pc = "stop_socket"
    /\ e_sockst' = IF e_socket = 0 THEN e_sockst
                   ELSE [e_sockst EXCEPT ![e_socket] = "closed"]
    /\ e_pc' = "idle"
    /\ UNCHANGED <<e_running, e_socket, e_accept, e_stream, e_asock, nruns, nhalts,
                   engOthers>>

(* _accept_clients: while self.running: ... self.server_socket.accept(), *)
(* on the socket the attribute names at that moment                      *)
EngineAcceptWhile(k) ==
    /\ e_accept[k] = "while"
    /\ e_accept' = [e_accept EXCEPT ![k] = IF e_running THEN "accept" ELSE "done"]
    /\ e_asock' = [e_asock EXCEPT ![k] = IF e_running THEN e_socket ELSE @]
    /\ UNCHANGED <<e_running, e_socket, e_sockst, e_pc, e_stream, nruns, nhalts,
                   engOthers>>

(* accept() returns a connection or times out after a second (continue), *)
(* or it raises, as on a socket that is closed or not listening; the     *)
(* handler reports if running and the loop goes on either way            *)
EngineAcceptReturns(k) ==
    /\ e_accept[k] = "accept"
    /\ e_accept' = [e_accept EXCEPT ![k] = "while"]
    /\ UNCHANGED <<e_running, e_socket, e_sockst, e_pc, e_stream, e_asock, nruns,
                   nhalts, engOthers>>

(* _stream_loop: while self.running: *)
EngineStreamWhile(k) ==
    /\ e_stream[k] = "while"
    /\ e_stream' = [e_stream EXCEPT ![k] = IF e_running THEN "frame" ELSE "done"]
    /\ UNCHANGED <<e_running, e_socket, e_sockst, e_pc, e_accept, e_asock, nruns,
                   nhalts, engOthers>>

(* capture, encode and broadcast, or the report of their fault, then the *)
(* pacing sleep                                                          *)
EngineStreamFrame(k) ==
    /\ e_stream[k] = "frame"
    /\ e_stream' = [e_stream EXCEPT ![k] = "while"]
    /\ UNCHANGED <<e_running, e_socket, e_sockst, e_pc, e_accept, e_asock, nruns,
                   nhalts, engOthers>>

----------------------------------------------------------------------------
(* The decoder driven as _receive_loop drives it *)

Payloads == SeqsUpTo(PayloadBytes, MaxPayload)

Stream == Concat([i \in 1..Len(msgs) |-> Encode(msgs[i])])

(* the bytes handed to add_data so far *)
Fed == Take(Stream, Len(Stream) - Len(wire))

(* the decoder is not part of the specification *)
IdleDecoder ==
    /\ buffer = <<>>
    /\ wire = <<>>
    /\ msgs = <<>>
    /\ pc = "recv"
    /\ ret = None
    /\ path = "nocall"
    /\ frames = <<>>
    /\ nadd = 0
    /\ ncall = 0

InitDecoder ==
    /\ buffer = <<>>
    /\ pc = "recv"
    /\ ret = None
    /\ path = "nocall"
    /\ frames = <<>>
    /\ nadd = 0
    /\ ncall = 0

Init ==
    /\ msgs \in SeqsUpTo(Payloads, MaxMsgs) \ {<<>>}
    /\ wire = Stream
    /\ InitDecoder
    /\ IdleEngine
    /\ IdleServer
    /\ IdleClient
    /\ IdleSession

InitRaw ==
    /\ msgs = <<>>
    /\ wire \in SeqsUpTo(RawBytes, MaxRaw) \ {<<>>}
    /\ InitDecoder
    /\ IdleEngine
    /\ IdleServer
    /\ IdleClient
    /\ IdleSession

(* data = recv(...); self.decoder.add_data(data): any non-empty chunk *)
AddData ==
    /\ pc = "recv"
    /\ wire # <<>>
    /\ \E k \in 1..Len(wire) :
        /\ buffer' = buffer \o Take(wire, k)
        /\ wire' = Drop(wire, k)
    /\ pc' = "drain"
    /\ nadd' = nadd + 1
    /\ ncall' = 0
    /\ UNCHANGED <<msgs, ret, path, frames>>
    /\ UNCHANGED <<srvVars, rcvVars, sesVars, engVars>>

(* frame = self.decoder.get_frame(); if frame is None: break *)
GetFrame ==
    /\ pc = "drain"
    /\ ret' = GetFrameReturn(buffer)
    /\ path' = GetFramePath(buffer)
    /\ buffer' = GetFrameBuffer(buffer)
    /\ frames' = IF ret'.ok THEN Append(frames, ret') ELSE frames
    /\ pc' = IF ret'.ok THEN "drain" ELSE "recv"
    /\ ncall' = ncall + 1
    /\ UNCHANGED <<wire, msgs, nadd>>
    /\ UNCHANGED <<srvVars, rcvVars, sesVars, engVars>>

Next == AddData \/ GetFrame

Spec == Init /\ [][Next]_vars

SpecRaw == InitRaw /\ [][Next]_vars

----------------------------------------------------------------------------
(* The server with default settings, its three threads and its clients *)

InitSrv ==
    /\ InitServer(DefaultQuality, DefaultFps, DefaultScale)
    /\ IdleDecoder
    /\ IdleEngine
    /\ IdleClient
    /\ IdleSession

NextSrv ==
    \/ StartCaptureFault \/ StartEncoder \/ StartBind \/ StartBindFault
    \/ StartError \/ StartAcceptThread \/ StartStreamThread
    \/ StopFlag \/ StopLock \/ StopCloseClient \/ StopClear \/ StopSocket
    \/ AcceptWhile \/ AcceptConnection \/ AcceptTimeout \/ AcceptFault
    \/ AcceptReport \/ AcceptLock \/ AcceptAppend \/ AcceptNotify
    \/ StreamWhile \/ StreamCapture \/ StreamCaptureFault
    \/ StreamEncode \/ StreamEncodeFault
    \/ BroadcastLock \/ BroadcastSend \/ BroadcastSendFault \/ BroadcastSendEnd
    \/ BroadcastRemove \/ BroadcastClose \/ BroadcastUnlock \/ BroadcastNotify
    \/ StreamPace

SpecServer == InitSrv /\ [][NextSrv]_vars

(* The server started once and not stopped: the accept thread and the     *)
(* fan-outs of the stream thread, whose writes fault before or after they *)
(* wrote a part of the message                                           *)

NextFanout ==
    \/ StartEncoder \/ StartBind \/ StartAcceptThread \/ StartStreamThread
    \/ AcceptWhile \/ AcceptConnection \/ AcceptTimeout
    \/ AcceptLock \/ AcceptAppend \/ AcceptNotify
    \/ StreamWhile \/ StreamCapture \/ StreamCaptureFault
    \/ StreamEncode \/ StreamEncodeFault
    \/ BroadcastLock \/ BroadcastSend \/ BroadcastSendFault \/ BroadcastSendCut
    \/ BroadcastSendEnd \/ BroadcastRemove \/ BroadcastClose \/ BroadcastUnlock
    \/ BroadcastNotify \/ StreamPace

SpecFanout == InitSrv /\ [][NextFanout]_vars

(* The server built with any arguments, its setters called at any time, and *)
(* no client connecting                                                    *)

InitSettings ==
    /\ \E q \in QualityArgs, f \in FpsArgs, sc \in ScaleArgs : InitServer(q, f, sc)
    /\ IdleDecoder
    /\ IdleEngine
    /\ IdleClient
    /\ IdleSession

NextSettings ==
    \/ \E v \in FpsArgs : SetFps(v)
    \/ \E q \in QualityArgs : SetQuality(q)
    \/ \E sc \in ScaleArgs : SetScale(sc)
    \/ StartCaptureFault \/ StartEncoder \/ StartBind \/ StartBindFault
    \/ StartError \/ StartAcceptThread \/ StartStreamThread
    \/ StopFlag \/ StopLock \/ StopClear \/ StopSocket
    \/ AcceptWhile \/ AcceptTimeout \/ AcceptFault \/ AcceptReport
    \/ StreamWhile \/ StreamCapture \/ StreamCaptureFault
    \/ StreamEncode \/ StreamEncodeFault
    \/ BroadcastLock \/ BroadcastSendEnd \/ BroadcastUnlock \/ BroadcastNotify
    \/ StreamPace

SpecSettings == InitSettings /\ [][NextSettings]_vars

(* The same server where start() succeeds, no client connects and accept() *)
(* only times out: the setters against the running stream loop             *)

NextTuning ==
    \/ \E v \in FpsArgs : SetFps(v)
    \/ \E q \in QualityArgs : SetQuality(q)
    \/ \E sc \in ScaleArgs : SetScale(sc)
    \/ StartEncoder \/ StartBind \/ StartAcceptThread \/ StartStreamThread
    \/ StopFlag \/ StopLock \/ StopClear \/ StopSocket
    \/ AcceptWhile \/ AcceptTimeout
    \/ StreamWhile \/ StreamCapture \/ StreamCaptureFault
    \/ StreamEncode \/ StreamEncodeFault
    \/ BroadcastLock \/ BroadcastSendEnd \/ BroadcastUnlock \/ BroadcastNotify
    \/ StreamPace

SpecTuning == InitSettings /\ [][NextTuning]_vars

----------------------------------------------------------------------------
(* The client on a stream of numbered messages, with one consumer *)

(* message i carries <<m, i>>: an image when m is the marker byte *)
NumberedStreams ==
    UNION {[1..n -> PayloadBytes] : n \in 1..MaxRecvMsgs}

InitRecv ==
    /\ \E marks \in NumberedStreams :
            msgs = [i \in 1..Len(marks) |-> <<marks[i], i>>]
    /\ wire = Stream
    /\ InitDecoder
    /\ IdleEngine
    /\ InitClient
    /\ IdleServer
    /\ IdleSession

NextRecv ==
    \/ Connect \/ ConnectFault
    \/ ReceiveWhile \/ ReceiveData \/ ReceiveClosed \/ ReceiveFault
    \/ ReceiveGetFrame \/ PublishLock \/ PublishStore \/ FpsWindow \/ FpsSkip
    \/ ConsumerLock \/ ConsumerRead
    \/ Tick

SpecRecv == InitRecv /\ [][NextRecv]_vars

(* The same client, with disconnect() called at any time after connect(). *)
(* A recv in progress when the socket is closed may still return what the   *)
(* peer sent.                                                               *)
NextDisc ==
    \/ NextRecv
    \/ CallerDisconnect \/ CallerClose \/ CallerClear
    \/ ReceiveStopped

SpecDisc == InitRecv /\ [][NextDisc]_vars

----------------------------------------------------------------------------
(* One client, connect() and disconnect() called at any time *)

InitSes ==
    /\ InitSession
    /\ InitClient
    /\ IdleDecoder
    /\ IdleEngine
    /\ IdleServer

(* the calls in progress in the caller's thread *)
CallerNext ==
    \/ ConnectRaises \/ ConnectError \/ ConnectEstablished \/ ConnectSpawn
    \/ DisconnectFlags(0) \/ DisconnectClose(0) \/ DisconnectNotify(0)

(* receive thread t, but for the returns of a recv in progress *)
LoopProgress(t) ==
    \/ LoopWhile(t) \/ LoopRecvCall(t) \/ LoopRecvRaises(t)
    \/ LoopAddData(t) \/ LoopPeerClosed(t) \/ LoopExcept(t)
    \/ DisconnectFlags(t) \/ DisconnectClose(t) \/ DisconnectNotify(t)

LoopNext(t) ==
    \/ LoopProgress(t)
    \/ LoopRecvData(t) \/ LoopRecvEmpty(t) \/ LoopRecvReset(t) \/ LoopRecvFault(t)

NextSes ==
    \/ ConnectBegin \/ DisconnectCall
    \/ CallerNext
    \/ \E t \in Loops : LoopNext(t)

SpecSession == InitSes /\ [][NextSes]_vars

----------------------------------------------------------------------------
(* The life cycle of either engine, its caller keeping to it: start() is    *)
(* called on a server whose loops are gone, connect() on a client whose     *)
(* receive loops are gone.  No client connects to the server here.          *)

SessionOver == \A t \in Loops : cpc[t] \in {"none", "done"}

InitLife ==
    /\ IdleDecoder
    /\ IdleEngine
    /\ InitClient
    /\ \/ InitServer(DefaultQuality, DefaultFps, DefaultScale) /\ IdleSession
       \/ IdleServer /\ InitSession

(* the calls in progress in the caller's thread of the server *)
MainNext ==
    \/ StartBind \/ StartBindFault \/ StartError
    \/ StartAcceptThread \/ StartStreamThread
    \/ StopLock \/ StopClear \/ StopSocket

AcceptNextLife ==
    AcceptWhile \/ AcceptTimeout \/ AcceptFault \/ AcceptReport

StreamNextLife ==
    \/ StreamWhile \/ StreamCapture \/ StreamCaptureFault
    \/ StreamEncode \/ StreamEncodeFault
    \/ BroadcastLock \/ BroadcastSendEnd \/ BroadcastUnlock \/ BroadcastNotify
    \/ StreamPace

NextLife ==
    \/ StartCaptureFault \/ StartEncoder \/ StopFlag
    \/ MainNext \/ AcceptNextLife \/ StreamNextLife
    \/ (SessionOver /\ ConnectBegin) \/ DisconnectCall
    \/ CallerNext
    \/ \E t \in Loops : LoopNext(t)

SpecLife == InitLife /\ [][NextLife]_vars

(* A call that has begun goes on to its end, the threads of the server keep *)
(* running (accept() returns after a second at the latest), and a receive   *)
(* thread keeps running but where it waits in recv, which has no timeout.   *)
FairLife ==
    /\ WF_vars(MainNext)
    /\ WF_vars(AcceptNextLife)
    /\ WF_vars(StreamNextLife)
    /\ WF_vars(CallerNext)
    /\ \A t \in Loops : WF_vars(LoopProgress(t))

SpecLifeFair == SpecLife /\ FairLife

----------------------------------------------------------------------------
(* One server, start() and stop() called in any order *)

InitEng ==
    /\ InitEngine
    /\ IdleDecoder
    /\ IdleServer
    /\ IdleClient
    /\ IdleSession

NextEngine ==
    \/ EngineStart \/ EngineBind \/ EngineBindShared \/ EngineBindFault \/ EngineFlag
    \/ EngineAcceptThread \/ EngineStreamThread
    \/ EngineStop \/ EngineStopSocket
    \/ \E k \in Runs :
        \/ EngineAcceptWhile(k) \/ EngineAcceptReturns(k)
        \/ EngineStreamWhile(k) \/ EngineStreamFrame(k)

SpecEngine == InitEng /\ [][NextEngine]_vars

----------------------------------------------------------------------------
(* Framing claims (Spec, SpecRaw) *)

(* offset in Stream at which message i ends; 0 for i = 0 *)
RECURSIVE Bound(_)
Bound(i) == IF i = 0 THEN 0 ELSE Bound(i - 1) + Len(Encode(msgs[i]))

(* number of bytes get_frame has removed from the buffer so far *)
Consumed == Len(Fed) - Len(buffer)

(* the stream was handed over whole, in one add_data *)
FedWhole == nadd = 1 /\ wire = <<>>

(* the buffer, holding all but the first c bytes of what was fed, starts at *)
(* the first byte of a message of which at least one byte has arrived and  *)
(* at least one has not                                                    *)
PartialMessageAt(c, nfed) ==
    \E i \in 1..Len(msgs) :
        /\ c = Bound(i - 1)
        /\ nfed > Bound(i - 1)
        /\ nfed < Bound(i)

BufferIsPartialMessage == PartialMessageAt(Consumed, Len(Fed))

(* the buffer is what was fed without its first c bytes *)
BufferIsRestOf(fed, c) == c >= 0 /\ buffer = Drop(fed, c)

\* C1: encode(P) handed whole to an empty decoder, then one get_frame:
\* the call returns the frame of P, for every payload P (the empty one
\* included), and leaves the buffer empty.
C1_RoundTrip ==
    (Len(msgs) = 1 /\ FedWhole /\ ncall = 1)
        => (ret = Frame(msgs[1]) /\ buffer = <<>>)

\* C2: encode(P) handed over in any non-empty chunks, get_frame after each:
\* none after every chunk but the last; after the last chunk the call
\* returns what it returns when encode(P) is fed whole, leaves the buffer
\* it leaves then, and P is produced once, not twice.
C2_PartialDelivery ==
    Len(msgs) = 1 =>
        /\ (ncall = 1 /\ wire # <<>>) =>
                (ret = None /\ frames = <<>> /\ buffer = Fed)
        /\ (ncall = 1 /\ wire = <<>>) =>
                /\ ret = GetFrameReturn(Encode(msgs[1]))
                /\ buffer = GetFrameBuffer(Encode(msgs[1]))
                /\ Decodable(msgs[1]) => ret = Frame(msgs[1])
        /\ ncall >= 2 => ret = None
        /\ Len(frames) <= 1

C2_Witness ==
    /\ Len(msgs) = 1
    /\ nadd >= 3
    /\ wire = <<>>
    /\ ncall = 1
    /\ ret = Frame(msgs[1])
    /\ buffer = <<>>

\* C3: encode(P1)+encode(P2)+encode(P3) handed over in one add_data and
\* drained until get_frame returns none: the frames produced are those of
\* P1, P2, P3, in this order, for all payloads.
C3_MultiMessage ==
    (Len(msgs) = 3 /\ FedWhole /\ pc = "recv")
        => frames = <<Frame(msgs[1]), Frame(msgs[2]), Frame(msgs[3])>>

\* C4: a get_frame call on a buffer of fewer than 4 bytes, or of a 4-byte
\* header declaring N followed by fewer than N bytes, returns none and
\* leaves the buffer as it was, byte for byte.
C4_NoMutationOnNone ==
    [][ ( /\ pc = "drain"
          /\ \/ Len(buffer) < 4
             \/ /\ Len(buffer) >= 4
                /\ Len(buffer) - 4 < Unpack(Take(buffer, 4)) )
        => (ret' = None /\ buffer' = buffer /\ pc' = "recv") ]_vars

(* header 10 and 3 payload bytes: none was returned, the 7 bytes are kept *)
C4_Witness ==
    /\ Len(buffer) = 7
    /\ Take(buffer, 4) = <<0, 0, 0, 10>>
    /\ pc = "recv"
    /\ ncall = 1
    /\ ret = None
    /\ path = "partial"

\* C10 as claimed: after each get_frame call on a well-formed stream cut at
\* arbitrary points, the buffer is the unconsumed end of what was fed and
\* holds zero bytes or a prefix of one message that has not fully arrived.
C10_EmptyOrPartialAfterEachCall ==
    ncall >= 1 =>
        /\ BufferIsRestOf(Fed, Len(Stream) - Len(wire) - Len(buffer))
        /\ buffer = <<>> \/ BufferIsPartialMessage

\* C10 as amended: after each get_frame call the buffer is the unconsumed
\* end of what was fed (no byte reordered, bytes removed from the front
\* only) and begins at a message boundary; after a call that returned none
\* for lack of data it holds zero bytes or a prefix of one message that has
\* not fully arrived.
C10_AlignedAfterEachCall ==
    ncall >= 1 =>
        /\ BufferIsRestOf(Fed, Len(Stream) - Len(wire) - Len(buffer))
        /\ \E i \in 0..Len(msgs) :
                Bound(i) = Len(Stream) - Len(wire) - Len(buffer)
        /\ path \in {"short", "partial"} =>
                (buffer = <<>> \/ BufferIsPartialMessage)

C10_Witness ==
    /\ ncall >= 1
    /\ path = "partial"
    /\ Len(frames) >= 1
    /\ Len(buffer) >= 4
    /\ BufferIsPartialMessage

----------------------------------------------------------------------------
(* Sender claims (SpecServer, SpecSettings) *)

(* pcS while the stream thread is inside _broadcast *)
InBroadcast == {"bc_lock", "bc_send", "bc_remove", "bc_close", "bc_notify"}

(* the handles _accept_clients has appended to self.clients *)
Registered ==
    {h \in 1..naccepted : ~(pcA \in {"append", "appending"} /\ h = naccepted)}

\* C6: a _broadcast pass in which the write to a client faults still writes
\* the frame to every other client that was registered, has closed the
\* faulting client and removed it from the registry when the critical
\* section ends, and does not raise: control leaves _broadcast only by its
\* return, and the loop's handler reports nothing.
C6_BroadcastIsolation ==
    /\ [](pcS = "bc_notify" =>
            \A i \in 1..Len(passClients) :
                IF passClients[i] \in Range(disconnected)
                THEN /\ passClients[i] \notin Range(clients)
                     /\ passClients[i] \in closed
                ELSE /\ sent[passClients[i]] # <<>>
                     /\ sent[passClients[i]][Len(sent[passClients[i]])] = encoded_data)
    /\ [][(pcS \in InBroadcast) =>
            (/\ pcS' \in InBroadcast \cup {"pace"}
             /\ pcS' = "pace" => pcS = "bc_notify"
             /\ lastError' = lastError)]_vars

(* two registered clients, the write to the first faulted, the second got *)
(* the frame                                                              *)
C6_Witness ==
    /\ pcS = "bc_notify"
    /\ Len(passClients) = 2
    /\ disconnected = <<passClients[1]>>
    /\ clients = <<passClients[2]>>
    /\ passClients[1] \in closed
    /\ sent[passClients[2]] # <<>>
    /\ sent[passClients[2]][Len(sent[passClients[2]])] = encoded_data

\* C7: at the pacing of a cycle the fps read is 1 if the last set_fps call
\* passed 0 and 60 if it passed 1000; at the encode of a cycle the scale
\* read is 1.0 if the last set_scale call passed 5.0 and 0.1 if it passed
\* 0.0; whether the setter was called before or after start().
C7_SettersClamp ==
    /\ (pcS = "pace" /\ lastFpsArg = <<0>>) => fps = 1
    /\ (pcS = "pace" /\ lastFpsArg = <<1000>>) => fps = 60
    /\ (pcS = "encode" /\ lastScaleArg = <<500>>) => encoder.scale = 100
    /\ (pcS = "encode" /\ lastScaleArg = <<0>>) => encoder.scale = 10

\* C8: in every reachable state the fps the stream loop divides by is in
\* [1,60], and the quality and the scale the encoder encodes with are in
\* [1,100] and [0.1,1.0].
C8_SettingsClamped ==
    /\ pcS = "pace" => fps \in 1..60
    /\ pcS = "encode" =>
            /\ encoder.quality \in 1..100
            /\ encoder.scale \in 10..100

\* C9: under every interleaving of the accept loop, the broadcast loop and
\* stop(): no handle is twice in self.clients; handles are removed and
\* closed only by the thread holding clients_lock, and both within one
\* critical section (with the lock free, a registered handle is in the
\* registry exactly when it is not closed); and the handle sendall is about
\* to be called on is neither closed nor removed.
C9_RegistryInvariant ==
    /\ NoDup(clients)
    /\ pcS \in {"bc_send", "bc_remove", "bc_close"} => clients_lock = "stream"
    /\ pcM = "stop_close" => clients_lock = "main"
    /\ clients_lock = "free" =>
            \A h \in Registered : (h \in Range(clients)) # (h \in closed)
    /\ (pcS = "bc_send" /\ bi <= Len(clients)) =>
            /\ clients[bi] \notin closed
            /\ clients[bi] \in Registered

(* the three threads meet at the registry: the broadcast holds the lock and *)
(* is about to write to a client, stop() and the accept loop wait for it   *)
C9_Witness ==
    /\ pcS = "bc_send"
    /\ bi <= Len(clients)
    /\ pcM = "stop_lock"
    /\ pcA = "append"

----------------------------------------------------------------------------
(* Receiver claims (SpecRecv) *)

(* the number a frame's message carries; 0 for no frame *)
SeqNo(f) == IF f.ok THEN f.img[2] ELSE 0

LastPublished ==
    IF published = <<>> THEN None ELSE published[Len(published)]

\* C5: a consumer's get_frame call returns the frame the receive loop
\* stored last, however many were stored since the consumer's previous
\* call; a consumer never gets an older frame after a newer one; and the
\* receive loop never waits for a consumer to read: at the slot it waits
\* for nothing but the lock, which a consumer holds only inside get_frame,
\* where it can always go on and release it.
C5_LatestWins ==
    /\ [][(pcC = "read" /\ pcC' = "idle") => obs' = LastPublished]_vars
    /\ [][SeqNo(obs') >= SeqNo(obs)]_vars
    /\ [](pcR = "lock" =>
            /\ frame_lock = "free" => ENABLED PublishLock
            /\ frame_lock # "free" =>
                    (frame_lock = "consumer" /\ pcC = "read" /\ ENABLED ConsumerRead))
    /\ [](pcR = "store" => ENABLED PublishStore)

(* three frames were stored before the consumer's first call, which *)
(* returned the third                                               *)
C5_Witness ==
    /\ Len(published) = 3
    /\ pcC = "idle"
    /\ obs = published[3]
    /\ SeqNo(obs) = 3

\* C11: on one connection the frames the receive loop stores in
\* current_frame are frames of messages of the stream, each of a message
\* later in the stream than the one stored before it, however recv cuts
\* the stream: nothing is stored out of order and nothing twice.
C11_FifoPerConnection ==
    \A i \in 1..Len(published) :
        \E j \in 1..Len(msgs) :
            /\ published[i] = Frame(msgs[j])
            /\ i > 1 => \E k \in 1..(j - 1) : published[i - 1] = Frame(msgs[k])

(* of three messages the second failed to decode: the first and the third *)
(* were stored, in this order                                             *)
C11_Witness ==
    /\ Len(msgs) = 3
    /\ published = <<Frame(msgs[1]), Frame(msgs[3])>>

\* C12: when a framed payload fails to decode, the same drain pass goes on
\* with the messages after it: the pass ends (the loop is back at its
\* while) only when the buffer holds no complete message.
C12_DecodeFaultContinues ==
    pcR = "while" => LacksData(buffer)

----------------------------------------------------------------------------
(* Framing claims, continued (Spec) *)

\* C19: a get_frame call on a buffer that starts with a complete message
\* whose payload fails to decode removes exactly the 4 + N bytes of that
\* message, returns none and produces no frame; after it the buffer is the
\* rest of what was fed and starts at the header of the next message.
C19_DecodeFaultKeepsFraming ==
    /\ [][(pc = "drain" /\ ~LacksData(buffer) /\ ~Decodable(FrameData(buffer)))
            => (/\ buffer' = Drop(buffer, 4 + FrameSize(buffer))
                /\ ret' = None
                /\ frames' = frames)]_vars
    /\ [](path = "decode_none" =>
            /\ BufferIsRestOf(Fed, Consumed)
            /\ \E i \in 1..Len(msgs) : Bound(i) = Consumed /\ ~Decodable(msgs[i]))

(* after the call the buffer starts with the next message, whole and *)
(* decodable                                                         *)
C19_Witness ==
    /\ path = "decode_none"
    /\ ~LacksData(buffer)
    /\ Decodable(FrameData(buffer))

----------------------------------------------------------------------------
(* Life cycle claims (SpecLife, SpecLifeFair, SpecServer, SpecSettings) *)

\* C13: a start() whose capture or bind/listen fails, and a connect() whose
\* connection fails: running (and connected on the client) is False while
\* the call is in its except clause and after it has returned, no loop
\* has been spawned, and the call returns False after reporting the error.
C13_FailedStartNeverRuns ==
    /\ []((pcM = "start_error" \/ (pcM = "idle" /\ startRet = "False"))
            => (~running /\ LoopsGone))
    /\ [][(pcM = "start_error" /\ pcM' # pcM)
            => (/\ pcM' = "idle"
                /\ startRet' = "False"
                /\ ~running'
                /\ pcA' = pcA /\ pcS' = pcS)]_vars
    /\ []((cpc[0] = "connect_error" \/ (cpc[0] = "idle" /\ connectRet = "False"))
            => (~r_running /\ ~connected /\ SessionOver))
    /\ [][(cpc[0] = "connect_error" /\ cpc'[0] # cpc[0])
            => (/\ cpc'[0] = "idle"
                /\ connectRet' = "False"
                /\ ~r_running' /\ ~connected'
                /\ \A t \in Loops : cpc'[t] = cpc[t])]_vars

(* bind or listen failed and start() has returned False; the socket it *)
(* made is left unbound                                              *)
C13_Witness ==
    /\ pcM = "idle"
    /\ startRet = "False"
    /\ server_socket = "unbound"

\* C14: a stop() call on a server that is stopped already, or was never
\* started, is a no-op: no step of the call changes running, the registry,
\* the set of closed client sockets or the server socket.
C14_StopIsNoOp ==
    [][(/\ stopped
        /\ pcM \in {"idle", "stop_lock", "stop_close", "stop_socket"}
        /\ pcM' \in {"stop_lock", "stop_close", "stop_socket", "idle"}
        /\ <<pcM, si>>' # <<pcM, si>>)
        => UNCHANGED <<running, clients, closed, server_socket>>]_vars

\* C15: once stop() has returned the accept loop and the stream loop
\* exit, and once the client is disconnected its receive loops exit, also
\* one that was waiting in recv at the time; a fault of accept on the
\* closed server socket, or of recv on the closed socket, finds running
\* off and is not reported.
C15_StopEndsLoops ==
    /\ stopped ~> LoopsGone
    /\ (cpc[0] = "idle" /\ ~r_running) ~> SessionOver
    /\ [][(pcA = "accept" /\ server_socket = "closed") => pcA' # "report"]_vars
    /\ [](\A t \in Loops :
            (cpc[t] \in {"raising", "except"}
                /\ (lsock[t] = 0 \/ sockst[lsock[t]] = "closed")) => ~r_running)
    /\ [][\A t \in Loops :
            (cpc[t] = "except" /\ ~r_running) => cpc'[t] \in {"except", "done"}]_vars

\* C16: where the server calls on_status_update, on_client_connect or
\* on_client_disconnect (the accept loop after its append, _broadcast
\* after its with block, stop() at its end) the calling thread does not
\* hold clients_lock; and whoever holds it is inside a with block, which
\* waits for nothing, so a callback that takes the lock gets it.
C16_CallbacksOutsideLock ==
    /\ pcA = "notify" => clients_lock # "accept"
    /\ pcS = "bc_notify" => clients_lock # "stream"
    /\ pcM = "stop_socket" => clients_lock # "main"
    /\ clients_lock = "accept" => pcA = "appending"
    /\ clients_lock = "stream" => pcS \in {"bc_send", "bc_remove", "bc_close"}
    /\ clients_lock = "main" => pcM = "stop_close"

(* _broadcast is about to report a disconnect while stop() holds the lock *)
C16_Witness ==
    /\ pcS = "bc_notify"
    /\ Len(disconnected) >= 1
    /\ clients_lock = "main"

\* C17: while running is True no step ends the stream loop or the accept
\* loop: the loops end only after stop() has set running to False.
C17_OnlyStopEndsLoops ==
    [][running =>
        (/\ pcS' \in {"done", "dead"} => pcS \in {"done", "dead"}
         /\ pcA' = "done" => pcA = "done")]_vars

----------------------------------------------------------------------------
(* Session claims (SpecSession) *)

\* C18: over any sequence of connect() and disconnect() calls at most one
\* receive loop is alive at a time, a receive loop calls recv only on the
\* socket of the connect() that spawned it, and feeds only that call's
\* decoder.
C18_OneConnection ==
    /\ Cardinality({t \in Loops : cpc[t] \notin {"none", "done"}}) <= 1
    /\ \A t \in Loops : cpc[t] = "blocked" => lsock[t] \in {0, t}
    /\ \A t \in Loops : cpc[t] = "got" => c_decoder \in {0, t}

\* C20: a receive loop whose recv returned no bytes reports it and runs
\* disconnect(): running and connected are set to False, the socket of the
\* client is closed and forgotten, the observers are notified, and the
\* loop ends there, without another recv; in a client connected once, the
\* loop leaves it stopped with its socket closed.
C20_PeerClose ==
    /\ [][\A t \in Loops :
            /\ (cpc[t] = "peer_closed" /\ cpc'[t] # cpc[t])
                    => cpc'[t] = "disc_flags"
            /\ (cpc[t] = "disc_flags" /\ cpc'[t] # cpc[t])
                    => (cpc'[t] = "disc_close" /\ ~r_running' /\ ~connected')
            /\ (cpc[t] = "disc_close" /\ cpc'[t] # cpc[t])
                    => (/\ cpc'[t] = "disc_notify"
                        /\ c_socket' = 0
                        /\ c_socket # 0 => sockst'[c_socket] = "closed")
            /\ (cpc[t] = "disc_notify" /\ cpc'[t] # cpc[t]) => cpc'[t] = "done"
            /\ cpc[t] = "done" => cpc'[t] = "done"]_vars
    /\ []((nconnect = 1 /\ cpc[1] \in {"disc_notify"})
            => (~r_running /\ ~connected /\ c_socket = 0 /\ sockst[1] = "closed"))

(* recv has returned no bytes in a running, connected client *)
C20_Witness ==
    /\ cpc[1] = "peer_closed"
    /\ r_running
    /\ connected
    /\ nconnect = 1

----------------------------------------------------------------------------
(* Fault handling of the receive loop (SpecSession) *)

(* thread t is in the disconnect() its loop called, or has ended *)
Leaving(t) == cpc[t] \in {"disc_flags", "disc_close", "disc_notify", "done"}

\* C21: a receive loop whose recv raised ConnectionResetError, or raised
\* anything else and finds the client running in its handler, calls
\* on_error once and goes into disconnect(), which turns running and
\* connected off; from there it only goes on to its end and never back to
\* recv.  Sockets are made, connect() calls counted and receive threads
\* started only by a connect() call of the caller's thread.
C21_ReadFault ==
    /\ [][\A t \in Loops :
            /\ (cpc[t] = "blocked" /\ cpc'[t] = "disc_flags")
                    => c_errors' = c_errors + 1
            /\ (cpc[t] = "except" /\ r_running /\ cpc'[t] # cpc[t])
                    => (cpc'[t] = "disc_flags" /\ c_errors' = c_errors + 1)
            /\ (cpc[t] = "disc_flags" /\ cpc'[t] # cpc[t])
                    => (~r_running' /\ ~connected')
            /\ Leaving(t) => Leaving(t)']_vars
    /\ [][/\ nconnect' # nconnect
                => (cpc[0] = "idle" /\ cpc'[0] = "connecting")
          /\ \A k \in Loops :
                /\ (sockst[k] = "none" /\ sockst'[k] # "none")
                        => (cpc[0] = "idle" /\ cpc'[0] = "connecting")
                /\ (cpc[k] = "none" /\ cpc'[k] # "none")
                        => (cpc[0] = "spawn" /\ cpc'[0] = "idle")]_vars

(* the handler of a generic fault has found the client running: the fault *)
(* is reported and the loop is in disconnect()                            *)
C21_Witness ==
    /\ nconnect = 1
    /\ connectRet = "True"
    /\ cpc[1] = "disc_flags"
    /\ c_errors = 1
    /\ r_running
    /\ cpc[0] = "idle"
    /\ ndisconnect = 0

(* the connect() calls that made a connection *)
Sessions ==
    {k \in Loops : cpc[k] # "none" \/ (k = nconnect /\ cpc[0] = "spawn")}

\* C30: on_disconnect is called once for each connect() that succeeded: at
\* no time more often than there were sessions (never for a client that was
\* never connected, never twice for one session), and as often as there
\* were sessions once every receive loop has ended, running is off and the
\* caller is in no call.
C30_DisconnectOnce ==
    /\ c_ondisc <= Cardinality(Sessions)
    /\ (SessionOver /\ cpc[0] = "idle" /\ ~r_running)
            => c_ondisc = Cardinality(Sessions)

----------------------------------------------------------------------------
(* Fault handling of the server loops (SpecSettings, SpecServer) *)

\* C22: a cycle of the stream loop in which capture_frame raises reports
\* the fault and goes to its pacing without a broadcast: the registry and
\* what was written to the clients stay as they are; after the pacing the
\* loop is back at its while, and with running True it starts the next
\* cycle.
C22_CaptureFault ==
    [][/\ (pcS = "capture" /\ pcS' = "pace")
            => (lastError' = "capture" /\ UNCHANGED <<clients, closed, sent>>)
       /\ (pcS = "pace" /\ pcS' # pcS)
            => (pcS' = "while" /\ UNCHANGED <<clients, closed, sent>>)
       /\ (pcS = "while" /\ running /\ pcS' # pcS) => pcS' = "capture"]_vars

\* C23: an accept() that raises anything but its timeout while running is
\* True is reported, and after the report the loop is back at its while
\* and, with running True, calls accept() again; an accept() that times
\* out takes the loop back to its while with no report: only a fault is
\* ever reported.
C23_AcceptFault ==
    /\ [][(pcA = "accept" /\ lastAccept' = "fault" /\ running)
            => pcA' = "report"]_vars
    /\ [][(pcA = "report" /\ pcA' # pcA)
            => (pcA' = "while" /\ lastAccept' = "reported")]_vars
    /\ [][(pcA = "while" /\ running /\ pcA' # pcA) => pcA' = "accept"]_vars
    /\ [][(pcA = "accept" /\ lastAccept' = "timeout") => pcA' = "while"]_vars
    /\ [][(lastAccept' = "reported" /\ lastAccept # "reported")
            => lastAccept = "fault"]_vars
    /\ [](pcA = "report" => lastAccept = "fault")

(* a fault of accept() on the listening socket was reported and the loop *)
(* is back at its while, the server still running                        *)
C23_Witness ==
    /\ running
    /\ pcA = "while"
    /\ lastAccept = "reported"
    /\ server_socket = "open"
    /\ pcM = "idle"

\* C24: a setter called while running is True starts and stops nothing;
\* from its return on, the pacing of every cycle divides by the clamped fps
\* last set, and every encode of the running loop uses the clamped quality
\* and the clamped scale last set.
C24_SettingsTakeEffect ==
    /\ []((pcS = "pace" /\ lastFpsArg # <<>>) => fps = ClampFps(lastFpsArg[1]))
    /\ []((pcS = "encode" /\ tuned.quality)
            => encoder.quality = ClampQuality(quality))
    /\ []((pcS = "encode" /\ tuned.scale)
            => (lastScaleArg = <<scale>> /\ encoder.scale = ClampScale(scale)))
    /\ [][(pcM' = pcM /\ settings' # settings)
            => UNCHANGED <<running, pcA, pcS, server_socket, clients>>]_vars

(* set_scale(5.0) was called on the running server: the next encode scales *)
(* by 1.0                                                                  *)
C24_Witness ==
    /\ running
    /\ pcS = "encode"
    /\ tuned.scale
    /\ scale = 500
    /\ encoder.scale = 100

----------------------------------------------------------------------------
(* The rate estimate of the client (SpecRecv) *)

\* C25: the estimate fps changes only where the receive loop has stored a
\* frame; there it is recomputed when a second or more has passed since
\* the last recomputation, and only then: it becomes the number of frames
\* stored since the last recomputation and the counter goes back to 0;
\* otherwise both stay as they are.  The passing of time alone changes
\* neither, and the counter is at all times the number of frames stored
\* since the last recomputation.
C25_RateEstimate ==
    /\ [][(pcR = "fps" /\ pcR' # pcR) =>
            IF elapsed >= Second
            THEN /\ r_fps' = Len(published) - fps_mark
                 /\ frame_count' = 0
                 /\ elapsed' = 0
            ELSE /\ r_fps' = r_fps
                 /\ frame_count' = frame_count
                 /\ elapsed' = elapsed]_vars
    /\ [][(pcR # "fps" \/ pcR' = pcR) => r_fps' = r_fps]_vars
    /\ [](frame_count = Len(published) - fps_mark)

(* the estimate was recomputed at the second frame and again at the third *)
C25_Witness ==
    /\ Len(published) = 3
    /\ fps_mark = 3
    /\ r_fps = 1
    /\ frame_count = 0
    /\ pcR = "drain"

----------------------------------------------------------------------------
(* Lengths that are never met (SpecRaw) *)

(* the buffer begins with a header that declares more bytes than the *)
(* connection will ever deliver                                      *)
Stalled ==
    /\ Len(buffer) >= 4
    /\ Len(buffer) - 4 + Len(wire) < FrameSize(buffer)

\* C27: once the buffer begins with a header declaring N bytes and fewer
\* than N bytes are still to come, that stays so: every get_frame call
\* returns none for lack of data, no frame is produced any more, and every
\* step leaves the buffer as it was or longer by what arrived, its old
\* content in front.
C27_PathologicalLength ==
    [][Stalled =>
        (/\ Stalled'
         /\ frames' = frames
         /\ pc = "drain" => (ret' = None /\ path' = "partial")
         /\ Len(buffer') >= Len(buffer)
         /\ Take(buffer', Len(buffer)) = buffer)]_vars

(* all the bytes have arrived, in two pieces or more, behind a header that *)
(* asks for more; the last call returned none                              *)
C27_Witness ==
    /\ Stalled
    /\ wire = <<>>
    /\ nadd >= 2
    /\ ncall >= 1
    /\ pc = "recv"
    /\ path = "partial"
    /\ Len(buffer) >= 6

----------------------------------------------------------------------------
(* Teardown (SpecServer) *)

(* stop() has been called and has returned, and start() was not called since *)
StopReturned == stopped /\ nstop >= 1 /\ pcM = "idle"

\* C26: once stop() has returned the registry is empty, every socket that
\* was registered is closed and the listening socket, if one was made, is
\* closed; and once a client whose last connect() succeeded is stopped,
\* its receive loops ended and its caller in no call, its socket is unset
\* and the socket of every session it had is closed.
C26_TeardownReleases ==
    /\ StopReturned =>
            /\ clients = <<>>
            /\ \A h \in Registered : h \in closed
            /\ server_socket \in {"none", "closed"}
    /\ (connectRet = "True" /\ SessionOver /\ cpc[0] = "idle" /\ ~r_running) =>
            /\ c_socket = 0
            /\ \A k \in Sessions : sockst[k] = "closed"

\* C28: once stop() has returned and the accept loop has ended, the
\* registry is empty and every connection accept() ever returned is closed.
C28_NoClientSurvivesStop ==
    (StopReturned /\ pcA = "done") =>
        /\ clients = <<>>
        /\ \A h \in 1..naccepted : h \in closed

(* the runs whose accept loop, and whose stream loop, is inside an iteration: *)
(* it has found running true and has not come back to test it               *)
ActiveAcceptLoops == {k \in Runs : e_accept[k] = "accept"}

ActiveStreamLoops == {k \in Runs : e_stream[k] = "frame"}

\* C29: over any sequence of start() and stop() calls on one server, at
\* most one accept loop and at most one stream loop is inside an iteration
\* at any time.
C29_SingleEngine ==
    /\ Cardinality(ActiveAcceptLoops) <= 1
    /\ Cardinality(ActiveStreamLoops) <= 1

----------------------------------------------------------------------------
(* Disconnect claims (SpecDisc) *)

(* the receive loop calls on_frame(frame): the step that ends the rate  *)
(* estimate of a stored frame                                           *)
OnFrameStep == pcR = "fps" /\ pcR' = "drain"

\* C31: once an explicit disconnect() has returned, the receive loop does
\* not store a frame in current_frame, does not add to frame_count and
\* does not call on_frame.
C31_NoPublicationAfterDisconnect ==
    [][(pcD = "returned") =>
            /\ current_frame' = current_frame
            /\ published' = published
            /\ frame_count' <= frame_count
            /\ ~OnFrameStep]_vars

----------------------------------------------------------------------------
(* Registry and stream claims (SpecServer) *)

(* get_client_count(), which waits for clients_lock *)
ClientCount == Len(clients)

\* C33 as stated: with clients_lock free, self.clients holds no handle the
\* server has closed, and get_client_count() is the number of connections
\* accept() has returned so far less those _broadcast evicted and those
\* stop() cleared.
C33_CountOfAccepted ==
    clients_lock = "free" =>
        /\ \A i \in 1..Len(clients) : clients[i] \notin closed
        /\ ClientCount = naccepted - nevicted - ncleared

\* C33: with clients_lock free, self.clients holds no handle the server has
\* closed, and get_client_count() is the number of connections appended to
\* self.clients so far less those _broadcast evicted and those stop()
\* cleared.
C33_RegistryHoldsLiveHandles ==
    clients_lock = "free" =>
        /\ \A i \in 1..Len(clients) : clients[i] \notin closed
        /\ ClientCount = Cardinality(Registered) - nevicted - ncleared

(* the lock is free after a broadcast evicted one client and stop() cleared *)
(* another                                                                  *)
C33_Witness ==
    /\ clients_lock = "free"
    /\ nevicted >= 1
    /\ ncleared >= 1

(* the last frame written whole to handle h; 0 for none *)
LastSent(h) == IF sent[h] = <<>> THEN 0 ELSE sent[h][Len(sent[h])]

\* C32: the bytes written to a client are whole framed messages but for a
\* last message cut short, after which the client is evicted within the
\* same critical section and nothing more is written to it; a fan-out
\* writes only to the clients registered when it took the lock, and to each
\* of them the whole frame unless its write faults.
C32_FrameAligned ==
    /\ [](\A h \in Handles :
            (h \in cut /\ clients_lock = "free") =>
                    (h \notin Range(clients) /\ h \in closed))
    /\ [](pcS = "bc_remove" =>
            \A i \in 1..Len(passClients) :
                \/ passClients[i] \in Range(disconnected)
                \/ LastSent(passClients[i]) = encoded_data)
    /\ [][\A h \in Handles :
            /\ sent'[h] # sent[h] =>
                    /\ clients_lock = "stream"
                    /\ h \in Range(passClients)
                    /\ h \notin cut
                    /\ h \notin closed
                    /\ sent'[h] = Append(sent[h], encoded_data)
            /\ (h \in cut' /\ h \notin cut) =>
                    /\ h \in Range(passClients)
                    /\ h \in Range(disconnected')]_vars

(* one client got the first frame whole and the second cut short; another, *)
(* registered after the first fan-out began, got the second frame whole     *)
C32_Witness ==
    \E h1, h2 \in Handles :
        /\ sent[h1] = <<1>>
        /\ h1 \in cut
        /\ sent[h2] = <<2>>

====
